---- MODULE Spec2Model ----
(***************************************************************************)
(* aptreader: the repository/index fetch-and-normalize pipeline.           *)
(*                                                                         *)
(*   SpecPkg   package reconciliation (backend._replace_packages_for_target)*)
(*   SpecDl    the conditional fetcher (fetcher.download_file)             *)
(*   SpecIdx   fetcher.download_packages_index over Packages.gz / Packages *)
(*   SpecDisc  fetcher.discover_distributions over a dists/ listing, and   *)
(*             RepositoryManager._discover_distributions over the same     *)
(*   SpecRel   fetcher.fetch_release_file and fetcher.fetch_distributions  *)
(*   SpecSel   the (component, architecture) targets of a package fetch    *)
(*   SpecGoc   backend._get_or_create_component / _architecture            *)
(*   SpecUi    the AppState background handlers and their busy flags       *)
(*   SpecRepo  add / update / delete of Repository rows                    *)
(*   SpecStore concurrent sessions: distribution replace, package pass,    *)
(*             repository delete                                           *)
(*                                                                         *)
(* Every specification shares the variables below; the variables of the    *)
(* subsystems a specification does not exercise stay at their initial      *)
(* value.                                                                  *)
(***************************************************************************)
EXTENDS Integers, Sequences, FiniteSets

VARIABLES
    db,         \* committed storage: package rows, components, architectures
    txn,        \* the open session's view of storage (flushed, uncommitted)
    sess,       \* locals of the running _replace_packages_for_target pass
    pc,         \* "idle" | "stream": position of the reconciliation pass
    clock,      \* datetime.now() of the running pass
    outcome,    \* how the last pass ended: "none" | "ok" | "integrity" | "dberror"
                \* | "cancelled"
    files,      \* the local cache: url -> the file at url_to_local_path(url)
    remote,     \* the mirror: url -> what it answers to HEAD and GET
    call,       \* the last download_file call since the mirror last changed:
                \* arguments, result, requests issued, the file before it,
                \* and the result and requests of the call before it
    index,      \* the last download_packages_index call since the mirror changed
    listing,    \* what the mirror answers to GET {repo_url}/dists/
    discovered, \* what discover_distributions made of it
    managed,    \* what RepositoryManager._discover_distributions made of it
    rel,        \* the running fetch_distributions generator: the names, the
                \* position, what it yielded, what fetch_release_file returned
    selection,  \* a Release's declared names, the caller's filters, and the
                \* package-fetch targets computed from them
    goc,        \* the last _get_or_create_* call and what it returned
    ui,         \* the AppState fields and the running background handler
    store       \* the database under concurrent sessions: the committed rows
                \* of every table, the id sequences, and each session's open
                \* transaction

pkgVars == <<db, txn, sess, pc, clock, outcome>>

dlVars == <<files, remote, call, index>>

discVars == <<listing, discovered, managed>>

relVars == <<rel>>

selVars == <<selection>>

gocVars == <<goc>>

uiVars == <<ui>>

storeVars == <<store>>

vars ==
    <<db, txn, sess, pc, clock, outcome, files, remote, call, index,
      listing, discovered, managed, rel, selection, goc, ui, store>>

\* what an action of one subsystem leaves alone
notPkg == <<dlVars, discVars, relVars, selVars, gocVars, uiVars, storeVars>>
notDl == <<pkgVars, discVars, relVars, selVars, gocVars, uiVars, storeVars>>
notDisc == <<pkgVars, dlVars, relVars, selVars, gocVars, uiVars, storeVars>>
notRel == <<pkgVars, dlVars, discVars, selVars, gocVars, uiVars, storeVars>>
notSel == <<pkgVars, dlVars, discVars, relVars, gocVars, uiVars, storeVars>>
notGoc == <<sess, pc, clock, outcome, dlVars, discVars, relVars, selVars, uiVars, storeVars>>
notUi == <<pkgVars, dlVars, discVars, relVars, selVars, gocVars, storeVars>>
notStore == <<pkgVars, dlVars, discVars, relVars, selVars, gocVars, uiVars>>

\* Python's None, and a field that is absent from a mapping
None == "None"

(***************************************************************************)
(* Bounds                                                                  *)
(***************************************************************************)
\* passes (and clock ticks) per behaviour
MaxPass == 2
\* entries streamed per pass
MaxEntries == 2
\* lines of a dists/ listing
MaxLines == 3
\* timestamps (file mtime, Last-Modified, the clock) range over 0 .. MaxTime
MaxTime == 2
\* _get_or_create_* calls per behaviour
MaxCalls == 4
\* distributions a discovery finds
MaxDists == 2
\* (component, architecture) targets of a package sync
MaxTargets == 4
\* repository rows ever added
MaxIds == 3
\* database sessions the background handlers open per behaviour
MaxSessions == 2

(***************************************************************************)
(* Package reconciliation                                                  *)
(***************************************************************************)
DistributionId == "jammy"
ComponentNames == {"main"}
ArchitectureNames == {"amd64", "arm64"}
PackageNames == {"foo", "bar"}
PackageVersions == {"1.0"}
SizeValues == {"10", "bogus"}

\* paragraphs a Packages file can stream: any field may be missing; the
\* malformed and the missing Size are streamed for one package name
Entries ==
    {e \in [Package : PackageNames \cup {None},
            Version : PackageVersions \cup {None},
            Size : SizeValues \cup {None}] :
        e.Package # "foo" => e.Size = "10"}

NoSession ==
    [component |-> None, architecture |-> None, packages |-> {},
     touched |-> {}, pending |-> <<>>, idx |-> 0, seen |-> {}]

\* name_unique: whether component.name and architecture.name carry a unique
\* index of their own. The models declare one (Field(unique=True)); the
\* migrations create the index with unique=False.
EmptyStorage ==
    [packages |-> {}, components |-> {}, architectures |-> {},
     distribution_last_fetched_at |-> 0, name_unique |-> FALSE]

PackageKey(row) ==
    <<row.distribution_id, row.component, row.architecture, row.name, row.version>>

\* UniqueConstraint(distribution_id, component_id, architecture_id, name, version):
\* TRUE when the rows break it
UniqueViolationNever(rows) == FALSE

UniqueViolation(rows) ==
    \E r1 \in rows, r2 \in rows : r1.id # r2.id /\ PackageKey(r1) = PackageKey(r2)

\* _build_package_model: nothing (<<>>) unless the entry has Package and
\* Version, else the one new row; size is the entry's Size as given
build_package_model(entry, component, architecture, now) ==
    IF entry.Package = None \/ entry.Version = None
    THEN <<>>
    ELSE <<[distribution_id |-> DistributionId,
          component |-> component,
          architecture |-> architecture,
          name |-> entry.Package,
          version |-> entry.Version,
          size |-> entry.Size,
          last_fetched_at |-> now]>>

\* the distributions, and the repository each belongs to
Distributions == {"jammy", "focal", "bookworm"}
RepositoryOf(distribution) == IF distribution = "bookworm" THEN 2 ELSE 1

HasLink(distributions, distribution) ==
    \E i \in 1 .. Len(distributions) : distributions[i] = distribution

\* lines 97-98 / 126-127 without the membership test
LinkAlways(distributions, distribution) == Append(distributions, distribution)

\* lines 97-98 / 126-127: if distribution not in x.distributions: append
Link(distributions, distribution) ==
    IF HasLink(distributions, distribution) THEN distributions
    ELSE Append(distributions, distribution)

\* the select of lines 88-93 / 117-122: the rows of (repository_id, name)
Named(rows, repository_id, name) ==
    {r \in rows : r.repository_id = repository_id /\ r.name = name}

\* the flush of a new row breaks the unique index on name, where there is one
NameTaken(rows, repository_id, name, name_unique) ==
    name_unique /\ \E r \in rows : r.name = name /\ r.repository_id # repository_id

\* look up by (repository, name); link the distribution to the row found,
\* or create the row with the one link; flush
GetOrCreate(rows, distribution, name, name_unique) ==
    LET repository_id == RepositoryOf(distribution)
        found == Named(rows, repository_id, name)
    IN  IF found # {}
        THEN LET row == CHOOSE r \in found : \A q \in found : r.id <= q.id
             IN  [exc |-> "none",
                  rows |-> (rows \ {row})
                               \cup {[row EXCEPT !.distributions = Link(@, distribution)]},
                  entity |-> row.id]
        ELSE IF NameTaken(rows, repository_id, name, name_unique)
        THEN [exc |-> "IntegrityError", rows |-> rows, entity |-> 0]
        ELSE LET id == 1 + (IF rows = {} THEN 0
                            ELSE CHOOSE m \in {r.id : r \in rows} :
                                    \A r \in rows : r.id <= m)
             IN  [exc |-> "none",
                  rows |-> rows \cup {[id |-> id,
                                       repository_id |-> repository_id,
                                       name |-> name,
                                       distributions |-> <<distribution>>]},
                  entity |-> id]

\* _get_or_create_component
get_or_create_component(components, distribution, component_name, name_unique) ==
    GetOrCreate(components, distribution, component_name, name_unique)

\* _get_or_create_architecture
get_or_create_architecture(architectures, distribution, architecture_name, name_unique) ==
    GetOrCreate(architectures, distribution, architecture_name, name_unique)

\* the rows of the target scope, as the query of lines 153-158 selects them
ScopeRows(rows, component, architecture) ==
    {r \in rows : /\ r.distribution_id = DistributionId
                  /\ r.component = component
                  /\ r.architecture = architecture}

\* packages = {(pkg.name, pkg.version): pkg for pkg in result.all()}
PackagesMap(rows, component, architecture) ==
    ScopeRows(rows, component, architecture)

\* packages.get((name, version)): the mapped row objects (none or one)
Lookup(packages, name, version) ==
    {p \in packages : p.name = name /\ p.version = version}

MaxOf(S) == IF S = {} THEN 0 ELSE CHOOSE m \in S : \A x \in S : x <= m

WithId(row, id) ==
    [id |-> id,
     distribution_id |-> row.distribution_id,
     component |-> row.component,
     architecture |-> row.architecture,
     name |-> row.name,
     version |-> row.version,
     size |-> row.size,
     last_fetched_at |-> row.last_fetched_at]

\* a delete-then-reinsert flush: rows the pass did not touch are dropped
FlushRowsPruning(rows, touched, pending) ==
    LET base == MaxOf({r.id : r \in rows})
    IN  touched \cup {WithId(pending[i], base + i) : i \in 1 .. Len(pending)}

\* session.flush(): UPDATE the touched row objects, INSERT the pending ones
FlushRows(rows, touched, pending) ==
    LET base == MaxOf({r.id : r \in rows})
        updated == {IF \E t \in touched : t.id = r.id
                    THEN CHOOSE t \in touched : t.id = r.id
                    ELSE r : r \in rows}
        inserted == {WithId(pending[i], base + i) : i \in 1 .. Len(pending)}
    IN  updated \cup inserted

\* line 169 as an upsert would write it: the hit row takes the entry's fields
TouchOverwrite(row, entry, now) ==
    [row EXCEPT !.last_fetched_at = now, !.size = entry.Size]

\* line 169: package.last_fetched_at = datetime.now()
Touch(row, entry, now) ==
    [row EXCEPT !.last_fetched_at = now]

\* what the loop body of lines 164-174 does to the session for one entry:
\* an existing (name, version) is touched, an unseen one is staged
ReconcileEntry(s, entry, now) ==
    LET hit == Lookup(s.packages, entry.Package, entry.Version)
        built == build_package_model(entry, s.component, s.architecture, now)
    IN  IF entry.Package = None \/ entry.Version = None THEN s
        ELSE IF hit # {}
             THEN [s EXCEPT !.touched =
                       {t \in @ : \A h \in hit : t.id # h.id}
                           \cup {Touch(h, entry, now) : h \in hit}]
             ELSE [s EXCEPT !.pending = @ \o built]

(***************************************************************************)
(* The conditional fetcher                                                 *)
(***************************************************************************)
Urls == {"Release", "Packages.gz", "Packages"}
SkipModes == {"fast", "check", "none"}
Statuses == {200, 404}
Times == 0 .. MaxTime
FileSizes == {1, 2}

\* an HTTP response header: absent, present but unparsable, or a value
Absent == [kind |-> "absent", v |-> 0]
Garbage == [kind |-> "garbage", v |-> 0]
Value(n) == [kind |-> "value", v |-> n]

LastModifiedHeaders == {Absent, Garbage} \cup {Value(t) : t \in Times}
ContentLengthHeaders == {Absent, Garbage} \cup {Value(n) : n \in FileSizes}


NoFile == [exists |-> FALSE, mtime |-> 0, size |-> 0]
NotPublished ==
    [status |-> 404, last_modified |-> Absent, content_length |-> Absent, size |-> 1]
NoCall ==
    [url |-> None, skip_mode |-> None, head_fails |-> FALSE, get_fails |-> FALSE,
     result |-> None, requests |-> <<>>, before |-> NoFile,
     prev |-> [result |-> None, requests |-> <<>>]]
NoIndex == [skip_mode |-> None, attempts |-> <<>>, returned |-> None]
IndexUrls == {"Packages.gz", "Packages"}

\* the tolerance of line 126, in seconds
MtimeTolerance == 1

\* utils.try_parse_date: None for a missing or unparsable date
try_parse_date(header) ==
    IF header.kind = "value" THEN [ok |-> TRUE, ts |-> header.v]
    ELSE [ok |-> FALSE, ts |-> 0]

\* response.raise_for_status()
is_success(status) == status >= 200 /\ status < 300

\* lines 121-136: TRUE when the HEAD check says the local file is current.
\* A failed HEAD or a bad Content-Length raises inside the inner try and is
\* swallowed there: the download goes ahead.
HeadSaysCurrentThenSize(file, rem, head_fails) ==
    LET last_modified == try_parse_date(rem.last_modified)
    IN  IF head_fails \/ ~is_success(rem.status) THEN FALSE
        ELSE IF last_modified.ok /\ last_modified.ts <= file.mtime + MtimeTolerance
        THEN TRUE
        ELSE IF rem.content_length.kind = "value"
        THEN rem.content_length.v = file.size
        ELSE FALSE

HeadSaysCurrentNoTolerance(file, rem, head_fails) ==
    LET last_modified == try_parse_date(rem.last_modified)
    IN  IF head_fails \/ ~is_success(rem.status) THEN FALSE
        ELSE IF last_modified.ok
        THEN last_modified.ts < file.mtime
        ELSE IF rem.content_length.kind = "value"
        THEN rem.content_length.v = file.size
        ELSE FALSE

HeadSaysCurrentIgnoresSize(file, rem, head_fails) ==
    LET last_modified == try_parse_date(rem.last_modified)
    IN  IF head_fails \/ ~is_success(rem.status) THEN FALSE
        ELSE IF last_modified.ok
        THEN last_modified.ts <= file.mtime + MtimeTolerance
        ELSE FALSE

HeadSaysCurrent(file, rem, head_fails) ==
    LET last_modified == try_parse_date(rem.last_modified)
    IN  IF head_fails \/ ~is_success(rem.status) THEN FALSE
        ELSE IF last_modified.ok
        THEN last_modified.ts <= file.mtime + MtimeTolerance
        ELSE IF rem.content_length.kind = "value"
        THEN rem.content_length.v = file.size
        ELSE FALSE

\* lines 142-144 with the utime call left out: the file keeps the write time
StampMtimeNever(written, header) ==
    [exc |-> IF header.kind = "garbage" THEN "Exception" ELSE "none",
     file |-> written]

\* lines 142-144: a Last-Modified on the GET response becomes the file's
\* mtime; dateutil's parse raises on a value it cannot parse
StampMtime(written, header) ==
    IF header.kind = "absent" THEN [exc |-> "none", file |-> written]
    ELSE IF header.kind = "garbage" THEN [exc |-> "Exception", file |-> written]
    ELSE [exc |-> "none", file |-> [written EXCEPT !.mtime = header.v]]

\* lines 138-144: GET, raise_for_status, write the body, stamp the mtime
GetAndWrite(file, rem, get_fails, now) ==
    IF get_fails THEN [exc |-> "Exception", file |-> file]
    ELSE IF ~is_success(rem.status) THEN [exc |-> "HTTPStatusError", file |-> file]
    ELSE StampMtime([exists |-> TRUE, mtime |-> now, size |-> rem.size],
                    rem.last_modified)

\* the except clauses of lines 149-158 with the catch-all missing
ExceptReraise(exc) ==
    IF exc = "none" THEN "True"
    ELSE IF exc = "HTTPStatusError" THEN "False"
    ELSE "raised"

\* the except clauses of lines 149-158: every exception becomes False
Except(exc) ==
    IF exc = "none" THEN "True" ELSE "False"

\* download_file: the result, the file afterwards, the requests it issued
download_file(file, rem, skip_mode, head_fails, get_fails, now) ==
    LET existing == file.exists
        checks == existing /\ skip_mode # "none"
        head == IF checks THEN <<"HEAD">> ELSE <<>>
    IN  IF existing /\ skip_mode = "fast"
        THEN [result |-> "True", file |-> file, requests |-> <<>>]
        ELSE IF checks /\ HeadSaysCurrent(file, rem, head_fails)
        THEN [result |-> "True", file |-> file, requests |-> head]
        ELSE LET got == GetAndWrite(file, rem, get_fails, now)
             IN  [result |-> Except(got.exc),
                  file |-> got.file,
                  requests |-> head \o <<"GET">>]

\* line 280 with the two variants the other way round
IndexSuffixesPlainFirst == <<"Packages", "Packages.gz">>

\* line 280: for suffix in ("Packages.gz", "Packages")
IndexSuffixes == <<"Packages.gz", "Packages">>

\* lines 280-286 from the i-th suffix on: download_file per variant, return
\* at the first success, None when the variants are exhausted.
\* faults[i] says whether the HEAD and the GET of the i-th download_file
\* call fail in transport.
RECURSIVE TrySuffixes(_, _, _, _, _, _)
TrySuffixes(i, fs, skip_mode, faults, now, attempts) ==
    IF i > Len(IndexSuffixes)
    THEN [returned |-> None, files |-> fs, attempts |-> attempts]
    ELSE LET url == IndexSuffixes[i]
             r == download_file(fs[url], remote[url], skip_mode,
                                faults[i].head, faults[i].get, now)
             fs2 == [fs EXCEPT ![url] = r.file]
             done == Append(attempts,
                            [url |-> url, result |-> r.result, requests |-> r.requests])
         IN  IF r.result = "True"
             THEN [returned |-> url, files |-> fs2, attempts |-> done]
             ELSE IF r.result = "raised"
             THEN [returned |-> "raised", files |-> fs2, attempts |-> done]
             ELSE TrySuffixes(i + 1, fs2, skip_mode, faults, now, done)

download_packages_index(skip_mode, faults, now) ==
    TrySuffixes(1, files, skip_mode, faults, now, <<>>)

Faults == [1 .. 2 -> [head : BOOLEAN, get : BOOLEAN]]

\* one download_packages_index call for one (component, architecture)
DownloadPackagesIndex(skip_mode, faults, now) ==
    /\ LET r == download_packages_index(skip_mode, faults, now)
       IN  /\ files' = r.files
           /\ index' = [skip_mode |-> skip_mode, attempts |-> r.attempts,
                        returned |-> r.returned]
    /\ UNCHANGED <<remote, call>>
    /\ UNCHANGED notDl

DlIdle ==
    /\ files = [u \in Urls |-> NoFile]
    /\ remote = [u \in Urls |-> NotPublished]
    /\ call = NoCall
    /\ index = NoIndex

\* one download_file call for the Release file of one distribution
DownloadFile(url, skip_mode, head_fails, get_fails, now) ==
    /\ LET r == download_file(files[url], remote[url], skip_mode,
                              head_fails, get_fails, now)
       IN  /\ files' = [files EXCEPT ![url] = r.file]
           /\ call' = [url |-> url, skip_mode |-> skip_mode,
                       head_fails |-> head_fails, get_fails |-> get_fails,
                       result |-> r.result, requests |-> r.requests,
                       before |-> files[url],
                       prev |-> [result |-> call.result, requests |-> call.requests]]
    /\ UNCHANGED <<remote, index>>
    /\ UNCHANGED notDl

\* the values a mirror can serve in one field of its answer
RemoteFieldValues(field) ==
    IF field = "status" THEN Statuses
    ELSE IF field = "last_modified" THEN LastModifiedHeaders
    ELSE IF field = "content_length" THEN ContentLengthHeaders
    ELSE FileSizes

RemoteFields == {"status", "last_modified", "content_length", "size"}

\* the mirror changes what it serves at url; the recorded call no longer
\* describes the mirror and is dropped
RemoteChange(url, field, value) ==
    /\ value # remote[url][field]
    /\ remote' = [remote EXCEPT ![url][field] = value]
    /\ call' = NoCall
    /\ index' = NoIndex
    /\ UNCHANGED files
    /\ UNCHANGED notDl

(***************************************************************************)
(* Distribution discovery                                                  *)
(***************************************************************************)
\* strings are sequences of characters
Jammy == <<"j", "a", "m", "m", "y">>
Focal == <<"f", "o", "c", "a", "l">>
Slash == <<"/">>
Parent == <<".", ".", "/">>
Query == <<"?", "C", "=", "N">>

\* href values of the tags of a listing: directories, the parent link, the
\* root, a sort link, a file, an absolute path, a missing href
Hrefs ==
    {Jammy \o Slash, Focal \o Slash, Parent, Slash, Query, Jammy,
     Slash \o Jammy \o Slash, <<>>}

\* lines of a plain-text listing
TextTokens ==
    {Jammy \o Slash, Parent, <<" ">> \o Focal \o Slash \o <<" ">>, Jammy}

Anchor(href) == [tag |-> "a", href |-> href, text |-> <<>>]
TextLine(text) == [tag |-> "", href |-> <<>>, text |-> text]

\* the lines a listing is made of: one start tag, or plain text
ListingLines ==
    {Anchor(h) : h \in Hrefs}
        \cup {[tag |-> "link", href |-> Jammy \o Slash, text |-> <<>>]}
        \cup {TextLine(t) : t \in TextTokens}

NotDiscovered == [state |-> "none", entries |-> <<>>]
NoListing == [status |-> 404, lines |-> <<>>]

DiscIdle ==
    /\ listing = NoListing
    /\ discovered = NotDiscovered
    /\ managed = NotDiscovered

Contains(seq, x) == \E i \in 1 .. Len(seq) : seq[i] = x

\* str.strip(chars)
RECURSIVE StripLeft(_, _)
StripLeft(str, chars) ==
    IF str # <<>> /\ Head(str) \in chars THEN StripLeft(Tail(str), chars) ELSE str

RECURSIVE StripRight(_, _)
StripRight(str, chars) ==
    IF str # <<>> /\ str[Len(str)] \in chars
    THEN StripRight(SubSeq(str, 1, Len(str) - 1), chars)
    ELSE str

Strip(str, chars) == StripRight(StripLeft(str, chars), chars)

StartsWith(str, prefix) ==
    Len(str) >= Len(prefix) /\ SubSeq(str, 1, Len(prefix)) = prefix

EndsWith(str, suffix) ==
    Len(str) >= Len(suffix)
        /\ SubSeq(str, Len(str) - Len(suffix) + 1, Len(str)) = suffix

\* handle_starttag without the checks of lines 35-38
handle_starttag_unfiltered(entries, tag, href) ==
    IF tag # "a" THEN entries
    ELSE IF ~EndsWith(href, Slash) THEN entries
    ELSE LET name == Strip(href, {"/"})
         IN  IF name # <<>> /\ ~Contains(entries, name)
             THEN Append(entries, name) ELSE entries

\* _DirectoryListingParser.handle_starttag: self._entries afterwards
handle_starttag(entries, tag, href) ==
    IF tag # "a" THEN entries
    ELSE IF href = <<>> \/ StartsWith(href, <<"?">>) THEN entries
    ELSE IF href \in {Parent, Slash} THEN entries
    ELSE IF ~EndsWith(href, Slash) THEN entries
    ELSE LET name == Strip(href, {"/"})
         IN  IF name # <<>> /\ ~Contains(entries, name)
             THEN Append(entries, name) ELSE entries

\* parser.feed(response.text); parser.get_entries()
RECURSIVE ParserEntries(_, _)
ParserEntries(lines, entries) ==
    IF lines = <<>> THEN entries
    ELSE ParserEntries(Tail(lines),
                       IF Head(lines).tag = ""
                       THEN entries
                       ELSE handle_starttag(entries, Head(lines).tag, Head(lines).href))

\* the text of a line as splitlines() gives it: a tag is <...>
LineText(line) ==
    IF line.tag = "" THEN line.text ELSE <<"<">> \o line.href \o <<">">>

\* lines 222-228: the candidates of the line-based fallback
RECURSIVE Candidates(_, _)
Candidates(lines, candidates) ==
    IF lines = <<>> THEN candidates
    ELSE LET token == Strip(LineText(Head(lines)), {" "})
         IN  Candidates(Tail(lines),
                 IF token = <<>> \/ StartsWith(token, <<".", ".">>)
                 THEN candidates
                 ELSE IF EndsWith(token, Slash)
                 THEN Append(candidates, Strip(token, {"/"}))
                 ELSE candidates)

\* list(dict.fromkeys(candidates))
RECURSIVE FromKeys(_, _)
FromKeys(seq, kept) ==
    IF seq = <<>> THEN kept
    ELSE FromKeys(Tail(seq),
                  IF Contains(kept, Head(seq)) THEN kept ELSE Append(kept, Head(seq)))

\* discover_distributions: the names, or the exception of raise_for_status
\* (or of the transport) that it lets through
discover_distributions(response, get_fails) ==
    IF get_fails \/ ~is_success(response.status)
    THEN [state |-> "raised", entries |-> <<>>]
    ELSE LET entries == ParserEntries(response.lines, <<>>)
             candidates == Candidates(response.lines, <<>>)
         IN  [state |-> "ok",
              entries |-> IF entries = <<>> /\ candidates # <<>>
                          THEN FromKeys(candidates, <<>>)
                          ELSE entries]

DiscoverDistributions(get_fails) ==
    /\ discovered' = discover_distributions(listing, get_fails)
    /\ UNCHANGED <<listing, managed>>
    /\ UNCHANGED notDisc

\* RepositoryManager._discover_distributions (repository.py): the same parse
\* and the same fallback, then lines 106-107: no entry at all is a ValueError
manager_discover_distributions(response, get_fails) ==
    LET found == discover_distributions(response, get_fails)
    IN  IF found.state = "ok" /\ found.entries = <<>>
        THEN [state |-> "ValueError", entries |-> <<>>]
        ELSE found

ManagerDiscoverDistributions(get_fails) ==
    /\ managed' = manager_discover_distributions(listing, get_fails)
    /\ UNCHANGED <<listing, discovered>>
    /\ UNCHANGED notDisc

(***************************************************************************)
(* Release files: fetch_release_file and fetch_distributions               *)
(***************************************************************************)
\* what the cached Release file holds, as local_path.read_text and
\* deb822.Release read it: fields, no paragraph at all (an empty mapping),
\* or bytes that do not decode (read_text raises)
ReleaseContents == {"fields", "empty", "undecodable"}

\* the cached Release file before the call, and the mirror's answers
ReleaseFiles == {NoFile, [exists |-> TRUE, mtime |-> 0, size |-> 1]}
ReleaseRemotes ==
    {NotPublished,
     [status |-> 200, last_modified |-> Value(1), content_length |-> Value(1),
      size |-> 1]}

\* the names fetch_distributions is given
DistributionLists ==
    {<<>>, <<Jammy>>, <<Jammy, Focal>>, <<Focal, Jammy>>, <<Focal, Jammy, Focal>>}

\* the listings a mirror serves under dists/ when no names are given
ReleaseListings ==
    {NoListing,
     [status |-> 200, lines |-> <<>>],
     [status |-> 200, lines |-> <<Anchor(Jammy \o Slash), Anchor(Focal \o Slash)>>]}

NoFetch == [state |-> "idle", names |-> <<>>, i |-> 0, yielded |-> <<>>, log |-> <<>>]

\* Python truth of one half of the returned tuple: None and {} are falsy
Truthy(x) == x \notin {None, "empty"}

\* lines 186-197 with the try/except missing: a parse failure gets out
ParseReleaseUnguarded(content) ==
    IF content = "undecodable"
    THEN [exc |-> "Exception", local_path |-> None, parsed |-> None]
    ELSE [exc |-> "none", local_path |-> "path", parsed |-> content]

\* lines 186-197: read and parse the file; any exception gives back the
\* path with no data
ParseRelease(content) ==
    IF content = "undecodable"
    THEN [exc |-> "none", local_path |-> "path", parsed |-> None]
    ELSE [exc |-> "none", local_path |-> "path", parsed |-> content]

\* fetch_release_file: download_file in its default CHECK mode, then parse
fetch_release_file(file, rem, head_fails, get_fails, now, content) ==
    LET r == download_file(file, rem, "check", head_fails, get_fails, now)
    IN  IF r.result = "raised"
        THEN [exc |-> "Exception", local_path |-> None, parsed |-> None,
              download |-> r.result]
        ELSE IF r.result # "True"
        THEN [exc |-> "none", local_path |-> None, parsed |-> None,
              download |-> r.result]
        ELSE LET parsed == ParseRelease(content)
             IN  [exc |-> parsed.exc, local_path |-> parsed.local_path,
                  parsed |-> parsed.parsed, download |-> r.result]

\* lines 256-258 as a loop that gives up at the first exception
AfterExceptionStop(state) == "done"

\* lines 256-258: log the exception and continue with the next name
AfterException(state) == state

\* lines 248-249: the names given, or the discovered ones
FetchDistributionsBegin(given, distributions, get_fails) ==
    /\ rel.state = "idle"
    /\ LET found == discover_distributions(listing, get_fails)
           names == IF given THEN distributions ELSE found.entries
       IN  rel' = [state |-> IF ~given /\ found.state = "raised" THEN "raised"
                             ELSE IF names = <<>> THEN "done" ELSE "running",
                   names |-> names, i |-> 0, yielded |-> <<>>, log |-> <<>>]
    /\ UNCHANGED notRel

\* lines 251-258: one turn of the loop. escapes says whether an exception
\* gets out of fetch_release_file for this name.
FetchDistributionsNext(file, rem, head_fails, get_fails, content, escapes) ==
    /\ rel.state = "running"
    /\ LET dist == rel.names[rel.i + 1]
           r == fetch_release_file(file, rem, head_fails, get_fails, 1, content)
           raised == escapes \/ r.exc # "none"
           yields == ~raised /\ Truthy(r.local_path) /\ Truthy(r.parsed)
           after == IF raised THEN AfterException("running") ELSE "running"
       IN  rel' = [rel EXCEPT
                     !.i = @ + 1,
                     !.state = IF after = "running" /\ rel.i + 1 < Len(rel.names)
                               THEN "running" ELSE "done",
                     !.yielded = IF yields
                                 THEN Append(@, [dist |-> dist,
                                                 local_path |-> r.local_path,
                                                 parsed |-> r.parsed])
                                 ELSE @,
                     !.log = Append(@, [dist |-> dist,
                                        download |-> r.download,
                                        content |-> content,
                                        escapes |-> escapes,
                                        exc |-> r.exc,
                                        local_path |-> r.local_path,
                                        parsed |-> r.parsed])]
    /\ UNCHANGED notRel

(***************************************************************************)
(* The (component, architecture) targets of a package fetch                *)
(***************************************************************************)
\* the Components and Architectures fields of a Release file, split
DeclaredComponents ==
    {<<>>, <<"main">>, <<"main", "universe">>, <<"universe", "main">>}
DeclaredArchitectures ==
    {<<>>, <<"amd64", "arm64">>, <<"amd64", "all">>, <<"all", "source">>,
     <<"source", "amd64", "arm64">>}

\* the caller's filters; no filter (None) and the empty list are both falsy
\* and are both <<>> here
ComponentFilters ==
    {<<>>, <<"main">>, <<"contrib">>, <<"">>, <<"", "contrib">>,
     <<"universe", "main">>, <<"contrib", "extra">>}
ArchitectureFilters ==
    {<<>>, <<"arm64">>, <<"all">>, <<"">>, <<"riscv64", "source">>,
     <<"amd64", "all">>}

\* the pseudo-architectures of repository.py:152
NotBinary == {"all", "source"}

NoSelection ==
    [declared_components |-> <<>>, declared_architectures |-> <<>>,
     component_filter |-> <<>>, architecture_filter |-> <<>>,
     loaded |-> FALSE, target_components |-> <<>>, target_arches |-> <<>>,
     requested |-> <<>>,
     synced |-> FALSE, targets |-> <<>>]

\* [x for x in seq if x], [x for x in seq if x in other], ... not in ...
NonEmpty(seq) == SelectSeq(seq, LAMBDA x : x # "")
Among(seq, other) == SelectSeq(seq, LAMBDA x : Contains(other, x))
Without(seq, set) == SelectSeq(seq, LAMBDA x : x \notin set)

\* lines 143-150 with the filter taken as it is given
TargetComponentsRawFilter(declared_components, component_filter) ==
    IF component_filter # <<>>
    THEN LET target_components == Among(declared_components, component_filter)
         IN  IF target_components = <<>> THEN component_filter ELSE target_components
    ELSE IF declared_components # <<>> THEN declared_components ELSE <<"main">>

\* repository.py lines 143-150
TargetComponents(declared_components, component_filter) ==
    IF component_filter # <<>>
    THEN LET filter_set == NonEmpty(component_filter)
             target_components == Among(declared_components, filter_set)
         IN  IF target_components = <<>>
             THEN IF filter_set # <<>> THEN filter_set ELSE <<"main">>
             ELSE target_components
    ELSE IF declared_components # <<>> THEN declared_components ELSE <<"main">>

\* lines 152-162 with the fallback of line 157 taken unfiltered
TargetArchesTrustFilter(architectures, architecture_filter) ==
    LET filtered_architectures == Without(architectures, NotBinary)
        filter_arches == NonEmpty(architecture_filter)
        among == Among(filtered_architectures, filter_arches)
        target_arches ==
            IF architecture_filter # <<>>
            THEN IF among = <<>> THEN filter_arches ELSE among
            ELSE filtered_architectures
    IN  IF target_arches = <<>> THEN filtered_architectures ELSE target_arches

\* repository.py lines 152-162
TargetArches(architectures, architecture_filter) ==
    LET filtered_architectures == Without(architectures, NotBinary)
        filter_arches == NonEmpty(architecture_filter)
        among == Among(filtered_architectures, filter_arches)
        target_arches ==
            IF architecture_filter # <<>>
            THEN IF among = <<>> THEN Without(filter_arches, NotBinary) ELSE among
            ELSE filtered_architectures
    IN  IF target_arches = <<>> THEN filtered_architectures ELSE target_arches

\* the targets with the architectures in the outer loop
RECURSIVE PairsArchitecturesOuter(_, _)
PairsArchitecturesOuter(components, architectures) ==
    IF architectures = <<>> THEN <<>>
    ELSE [k \in 1 .. Len(components) |-> <<components[k], Head(architectures)>>]
             \o PairsArchitecturesOuter(components, Tail(architectures))

\* [(comp, arch) for comp in components for arch in architectures]
RECURSIVE Pairs(_, _)
Pairs(components, architectures) ==
    IF components = <<>> THEN <<>>
    ELSE [k \in 1 .. Len(architectures) |-> <<Head(components), architectures[k]>>]
             \o Pairs(Tail(components), architectures)

\* RepositoryManager._load_release, lines 143-171: the targets, and one
\* Packages.gz request per (component, architecture) with a non-empty
\* architecture
LoadRelease ==
    /\ ~selection.loaded
    /\ LET target_components ==
               TargetComponents(selection.declared_components,
                                selection.component_filter)
           target_arches ==
               TargetArches(selection.declared_architectures,
                            selection.architecture_filter)
       IN  selection' =
               [selection EXCEPT
                  !.loaded = TRUE,
                  !.target_components = target_components,
                  !.target_arches = target_arches,
                  !.requested = Pairs(target_components, NonEmpty(target_arches))]
    /\ UNCHANGED notSel

\* AppState.fetch_distribution_packages, lines 497-523: the Distribution row
\* holds the Release's Components and Architectures as they were split
\* (lines 453-454). No target when a list is empty, else every stored
\* component with every stored architecture, and one
\* download_packages_index call per target.
PackageTargets ==
    /\ ~selection.synced
    /\ LET component_names == selection.declared_components
           architecture_names == selection.declared_architectures
       IN  selection' =
               [selection EXCEPT
                  !.synced = TRUE,
                  !.targets = IF component_names = <<>> \/ architecture_names = <<>>
                              THEN <<>>
                              ELSE Pairs(component_names, architecture_names)]
    /\ UNCHANGED notSel

(***************************************************************************)
(* _get_or_create_component and _get_or_create_architecture in a session   *)
(***************************************************************************)
NoGot ==
    [kind |-> None, distribution |-> None, name |-> None, state |-> "idle",
     entity |-> 0, before |-> 0, calls |-> 0]

\* the id of the row of (repository of distribution, name), 0 when none
RowId(rows, distribution, name) ==
    LET found == Named(rows, RepositoryOf(distribution), name)
    IN  IF found = {} THEN 0 ELSE (CHOOSE r \in found : TRUE).id

\* one call inside the open session; an exception of the flush ends the
\* session, which rolls back what it had flushed
GetOrCreateComponent(distribution, component_name, db_error) ==
    /\ LET r == get_or_create_component(txn.components, distribution,
                                       component_name, db.name_unique)
           raised == db_error \/ r.exc # "none"
       IN  /\ goc.calls < MaxCalls
           /\ txn' = IF raised THEN db ELSE [txn EXCEPT !.components = r.rows]
           /\ goc' = [kind |-> "components", distribution |-> distribution,
                      name |-> component_name,
                      state |-> IF raised THEN "raised" ELSE "returned",
                      entity |-> IF raised THEN 0 ELSE r.entity,
                      calls |-> goc.calls + 1,
                      before |-> RowId(txn.components, distribution, component_name)]
    /\ UNCHANGED db
    /\ UNCHANGED notGoc

GetOrCreateArchitecture(distribution, architecture_name, db_error) ==
    /\ LET r == get_or_create_architecture(txn.architectures, distribution,
                                          architecture_name, db.name_unique)
           raised == db_error \/ r.exc # "none"
       IN  /\ goc.calls < MaxCalls
           /\ txn' = IF raised THEN db ELSE [txn EXCEPT !.architectures = r.rows]
           /\ goc' = [kind |-> "architectures", distribution |-> distribution,
                      name |-> architecture_name,
                      state |-> IF raised THEN "raised" ELSE "returned",
                      entity |-> IF raised THEN 0 ELSE r.entity,
                      calls |-> goc.calls + 1,
                      before |-> RowId(txn.architectures, distribution, architecture_name)]
    /\ UNCHANGED db
    /\ UNCHANGED notGoc

\* session.commit() of the caller, and then the next session
SessionCommit ==
    /\ txn # db
    /\ db' = txn
    /\ goc' = [NoGot EXCEPT !.calls = goc.calls]
    /\ UNCHANGED txn
    /\ UNCHANGED notGoc

\* the caller's session ends without commit
SessionRollback ==
    /\ txn # db
    /\ txn' = db
    /\ goc' = [NoGot EXCEPT !.calls = goc.calls]
    /\ UNCHANGED db
    /\ UNCHANGED notGoc

(***************************************************************************)
(* The AppState background handlers, one step per suspension point         *)
(***************************************************************************)
\* the state fields of lines 201-209 and the locals of the running handler.
\* pc is the await the handler is suspended at; toasts are the outcomes it
\* has yielded; cancelled says that CancelledError was thrown into it; log
\* is what the package sync has asked of the fetcher and of storage.
NoHandler ==
    [is_fetching |-> FALSE, fetch_repo_id |-> -1, fetch_progress |-> 100,
     is_fetching_packages |-> FALSE, package_fetch_distribution_id |-> -1,
     package_fetch_progress |-> 100,
     handler |-> None, pc |-> "idle", toasts |-> <<>>, cancelled |-> FALSE,
     num_dists |-> 0, idx |-> 0, fetched |-> 0, save |-> None,
     component_names |-> <<>>, architecture_names |-> <<>>, targets |-> <<>>,
     total_targets |-> 0, processed |-> 0, write_failed |-> FALSE,
     log |-> <<>>]

\* the ids the handlers are called with
RepoId == 1
FetchDistributionId == 1

\* a handler starts on the state the last one left
Fresh(handler, at) ==
    [NoHandler EXCEPT
       !.is_fetching = ui.is_fetching,
       !.fetch_repo_id = ui.fetch_repo_id,
       !.fetch_progress = ui.fetch_progress,
       !.is_fetching_packages = ui.is_fetching_packages,
       !.package_fetch_distribution_id = ui.package_fetch_distribution_id,
       !.package_fetch_progress = ui.package_fetch_progress,
       !.handler = handler,
       !.pc = at]

Toast(u, toast) == [u EXCEPT !.toasts = Append(@, toast)]

\* floor((processed / total_targets) * 100)
Progress(count, total) == (count * 100) \div total

\* the async for of line 392 ends at once
ExhaustedAtOnce(idx, num_dists) == TRUE

\* the async for of line 392 ends when fetch_distributions has worked
\* through every name
Exhausted(idx, num_dists) == idx >= num_dists

\* fetch_repository_distributions, lines 362-377: look the repository up;
\* not found is an error toast and a return before the try; else set the
\* busy flag inside the try and suspend at sleep(0)
FetchRepositoryDistributions(found) ==
    /\ ui.pc \in {"idle", "done"}
    /\ ui' = IF ~found
             THEN Toast(Fresh("distributions", "done"), "error: repository not found")
             ELSE [Fresh("distributions", "discover") EXCEPT
                     !.is_fetching = TRUE,
                     !.fetch_repo_id = RepoId,
                     !.fetch_progress = 0]
    /\ UNCHANGED notUi

\* lines 379-387: discovery raises (the except clause toasts the error),
\* finds nothing (warning, return) or finds n names
Discover(result, n) ==
    /\ ui.pc = "discover"
    /\ ui' = IF result = "raised"
             THEN [Toast(ui, "error: fetching distributions") EXCEPT !.pc = "finally"]
             ELSE IF result = "empty"
             THEN [Toast(ui, "warning: no distributions found") EXCEPT !.pc = "finally"]
             ELSE [ui EXCEPT !.num_dists = n, !.pc = "fetch"]
    /\ UNCHANGED notUi

\* lines 392-398: fetch_distributions works through one more name and
\* yields it or not (a yield is counted and moves the progress); after the
\* last name the loop ends
FetchOneRelease(yielded) ==
    /\ ui.pc = "fetch"
    /\ ui' = IF ~Exhausted(ui.idx, ui.num_dists)
             THEN IF yielded
                  THEN [ui EXCEPT !.idx = @ + 1,
                                  !.fetched = @ + 1,
                                  !.fetch_progress = Progress(ui.fetched + 1, ui.num_dists)]
                  ELSE [ui EXCEPT !.idx = @ + 1]
             ELSE [ui EXCEPT !.pc = "save"]
    /\ UNCHANGED notUi

\* line 401: _replace_repository_distributions catches every exception of
\* the save (lines 470-475) and returns a toast, which the caller drops
ReplaceRepositoryDistributions(saved) ==
    /\ ui.pc = "save"
    /\ ui' = [ui EXCEPT !.save = IF saved THEN "ok" ELSE "failed",
                        !.pc = "report"]
    /\ UNCHANGED notUi

\* lines 404-406
ReportDistributions ==
    /\ ui.pc = "report"
    /\ ui' = [Toast(ui, "success: fetched distributions") EXCEPT !.pc = "finally"]
    /\ UNCHANGED notUi

\* lines 412-414: the finally clause up to its sleep(5)
FinallySleep ==
    /\ ui.pc = "finally"
    /\ ui' = [ui EXCEPT !.fetch_progress = 100, !.pc = "sleep"]
    /\ UNCHANGED notUi

\* lines 415-420: the reset after the sleep
FinallyReset ==
    /\ ui.pc = "sleep"
    /\ ui' = [ui EXCEPT !.is_fetching = FALSE, !.fetch_repo_id = -1,
                        !.fetch_progress = 100, !.pc = "done"]
    /\ UNCHANGED notUi

\* fetch_distribution_packages, lines 481-512: the early returns (no id, no
\* repository, no component or architecture names) toast and return; else
\* build the targets, set the busy flag and suspend at sleep(0), before the
\* try of line 516
FetchDistributionPackages(usable, component_names, architecture_names) ==
    /\ ui.pc \in {"idle", "done"}
    /\ Len(component_names) * Len(architecture_names) <= MaxTargets
    /\ ui' = IF ~usable \/ component_names = <<>> \/ architecture_names = <<>>
             THEN Toast(Fresh("packages", "done"), "warning: nothing to fetch")
             ELSE [Fresh("packages", "before_try") EXCEPT
                     !.is_fetching_packages = TRUE,
                     !.package_fetch_distribution_id = FetchDistributionId,
                     !.package_fetch_progress = 0,
                     !.component_names = component_names,
                     !.architecture_names = architecture_names,
                     !.targets = Pairs(component_names, architecture_names),
                     !.total_targets = Len(Pairs(component_names, architecture_names))]
    /\ UNCHANGED notUi

\* lines 514-521: enter the try, start on the next target
EnterTry ==
    /\ ui.pc = "before_try"
    /\ ui' = [ui EXCEPT !.pc = "target"]
    /\ UNCHANGED notUi

Logged(u, op) ==
    [u EXCEPT !.log = Append(@, [op |-> op, target |-> u.targets[u.processed + 1]])]

\* a missing index reported as the failure of the target
SkipTargetAsError(u) ==
    [Toast(u, "error: no packages index") EXCEPT !.pc = "finally_packages"]

\* lines 524-530: no Packages file for the target: count it and continue
SkipTarget(u) ==
    [u EXCEPT !.processed = @ + 1,
              !.package_fetch_progress = Progress(u.processed + 1, u.total_targets)]

\* a target counted by the except clause and by the finally clause
CountTargetTwice(u) ==
    [u EXCEPT !.processed = @ + 2,
              !.package_fetch_progress = Progress(u.processed + 2, u.total_targets)]

\* lines 552-556: the finally clause of a target's write
CountTarget(u) ==
    [u EXCEPT !.processed = @ + 1,
              !.package_fetch_progress = Progress(u.processed + 1, u.total_targets)]

\* lines 517-530: download_packages_index for the next target returns an
\* index or None; after the last target lines 559-564 report success
NextTarget(index_found) ==
    /\ ui.pc = "target"
    /\ ui' = IF ui.processed >= ui.total_targets
             THEN [Toast(ui, "success: fetched packages") EXCEPT
                     !.package_fetch_progress = 100,
                     !.pc = "finally_packages"]
             ELSE IF index_found
             THEN [Logged(ui, "index") EXCEPT !.pc = "write"]
             ELSE SkipTarget(Logged(ui, "no index"))
    /\ UNCHANGED notUi

\* lines 532-557: _replace_packages_for_target; a write error is toasted
\* and the loop continues; the finally clause counts the target
WriteTarget(written) ==
    /\ ui.pc = "write"
    /\ ui' = [CountTarget(IF written THEN Logged(ui, "write")
                          ELSE [Toast(Logged(ui, "write"), "error: saving packages")
                                  EXCEPT !.write_failed = TRUE])
                EXCEPT !.pc = "target"]
    /\ UNCHANGED notUi

\* lines 566-568: an exception of the try outside the write of a target
FetchPackagesError ==
    /\ ui.pc = "target"
    /\ ui' = [Toast(ui, "error: fetching packages") EXCEPT !.pc = "finally_packages"]
    /\ UNCHANGED notUi

\* lines 569-575
FinallyResetPackages ==
    /\ ui.pc = "finally_packages"
    /\ ui' = [ui EXCEPT !.is_fetching_packages = FALSE,
                        !.package_fetch_distribution_id = -1,
                        !.package_fetch_progress = 100,
                        !.pc = "done"]
    /\ UNCHANGED notUi

\* where CancelledError lands when it is thrown into the handler at the
\* await it is suspended at: inside a try it runs the finally clause; at
\* line 512, before the try, and at the awaits of a finally clause itself
\* nothing is left to run
AfterCancel(at) ==
    IF at \in {"discover", "fetch", "save", "report"} THEN "finally"
    ELSE IF at \in {"target", "write"} THEN "finally_packages"
    ELSE "done"

\* the running task is cancelled (once) at the await it is suspended at; in
\* the write of a target the inner finally clause still counts the target
Cancel ==
    /\ ui.pc \notin {"idle", "done"}
    /\ ~ui.cancelled
    /\ ui' = [(IF ui.pc = "write" THEN CountTarget(ui) ELSE ui)
                EXCEPT !.cancelled = TRUE, !.pc = AfterCancel(ui.pc)]
    /\ UNCHANGED notUi

(***************************************************************************)
(* _replace_packages_for_target, one step per suspension point             *)
(***************************************************************************)
\* the session ends without commit: everything flushed is rolled back
Rollback(why) ==
    /\ txn' = db
    /\ pc' = "idle"
    /\ outcome' = why
    /\ sess' = [sess EXCEPT !.touched = {}, !.pending = <<>>]

\* lines 146-161: open the session, get-or-create the component and the
\* architecture, load the scope's rows into the packages map
ReplacePackagesBegin(component_name, architecture_name) ==
    /\ pc = "idle"
    /\ clock < MaxPass
    /\ clock' = clock + 1
    /\ pc' = "stream"
    /\ outcome' = "none"
    /\ txn' = [db EXCEPT
                 !.components =
                     get_or_create_component(@, DistributionId, component_name,
                                             db.name_unique).rows,
                 !.architectures =
                     get_or_create_architecture(@, DistributionId, architecture_name,
                                                db.name_unique).rows]
    /\ sess' = [component |-> component_name,
                architecture |-> architecture_name,
                packages |-> PackagesMap(db.packages, component_name, architecture_name),
                touched |-> {}, pending |-> <<>>, idx |-> 0, seen |-> {}]
    /\ UNCHANGED db
    /\ UNCHANGED notPkg

\* lines 163-179: one streamed entry, then the once-a-second flush when due
ReplacePackagesEntry(entry, flush_due, db_error) ==
    /\ pc = "stream"
    /\ sess.idx < MaxEntries
    /\ LET s1 == ReconcileEntry(sess, entry, clock)
           s2 == [s1 EXCEPT !.idx = @ + 1,
                            !.seen = IF entry.Package = None \/ entry.Version = None
                                     THEN @ ELSE @ \cup {<<entry.Package, entry.Version>>}]
           rows == FlushRows(txn.packages, s2.touched, s2.pending)
       IN  IF ~flush_due
           THEN /\ sess' = s2
                /\ UNCHANGED <<txn, pc, outcome>>
           ELSE IF db_error
           THEN /\ Rollback("dberror")
           ELSE IF UniqueViolation(rows)
           THEN /\ Rollback("integrity")
           ELSE /\ txn' = [txn EXCEPT !.packages = rows]
                /\ sess' = [s2 EXCEPT !.touched = {}, !.pending = <<>>]
                /\ UNCHANGED <<pc, outcome>>
    /\ UNCHANGED <<db, clock>>
    /\ UNCHANGED notPkg

\* lines 180-185: the stream is exhausted: flush, stamp the distribution, commit
ReplacePackagesFinish(db_error) ==
    /\ pc = "stream"
    /\ LET rows == FlushRows(txn.packages, sess.touched, sess.pending)
       IN  IF db_error
           THEN /\ Rollback("dberror")
                /\ UNCHANGED db
           ELSE IF UniqueViolation(rows)
           THEN /\ Rollback("integrity")
                /\ UNCHANGED db
           ELSE /\ db' = [txn EXCEPT !.packages = rows,
                                     !.distribution_last_fetched_at = clock]
                /\ txn' = db'
                /\ sess' = [sess EXCEPT !.touched = {}, !.pending = <<>>]
                /\ pc' = "idle"
                /\ outcome' = "ok"
    /\ UNCHANGED clock
    /\ UNCHANGED notPkg

\* the task is cancelled at one of the awaits of lines 163-181 (or the
\* generator is closed at a yield): CancelledError leaves the
\* 'async with rx.asession()' block before the commit of line 184
ReplacePackagesCancel ==
    /\ pc = "stream"
    /\ Rollback("cancelled")
    /\ UNCHANGED <<db, clock>>
    /\ UNCHANGED notPkg

(***************************************************************************)
(* The database under concurrent sessions                                  *)
(*                                                                         *)
(* store holds the committed rows of the repository, distribution,         *)
(* component, architecture and package tables, the id sequence of each     *)
(* table, and one transaction per session.  A session's deletes and        *)
(* inserts stay in its transaction until its commit applies them, with the *)
(* schema's unique constraints and foreign keys, or its rollback drops     *)
(* them.  A statement reads the rows committed when it runs.               *)
(***************************************************************************)
\* the sessions that can be open at once
Procs == {1, 2}

\* a URL as the pieces str.replace tells apart
RepositoryUrls ==
    { <<"http://", "deb", "/", "debian">>,
      <<"https://", "deb", "/", "debian">>,
      <<"http://", "apt">> }

\* what the "name" field of the forms can hold; <<>> is the empty string
RepositoryNames == { <<>>, <<"deb", "_", "debian">>, <<"mirror">> }

\* line 296: url.replace("http://", "").replace("https://", "").replace("/", "_")
DefaultName(url) ==
    LET bare == SelectSeq(url, LAMBDA t : t \notin {"http://", "https://"})
    IN  [i \in 1 .. Len(bare) |-> IF bare[i] = "/" THEN "_" ELSE bare[i]]

\* names of the distributions a repository can have
DistributionNames == {"a", "b"}

\* the (name, version) of the entries a Packages index can stream
PackageKeys == { <<"foo", "1">>, <<"foo", "2">> }

NoPending ==
    [distributions |-> {}, components |-> {}, architectures |-> {}, packages |-> {}]

NoTx ==
    [op |-> "none", pc |-> "idle", repo_id |-> 0, names |-> {}, deleted |-> {},
     distribution_id |-> 0, component_id |-> 0, architecture_id |-> 0,
     known |-> {}, pending |-> NoPending]

NoRows ==
    [repositories |-> {}, distributions |-> {}, components |-> {},
     architectures |-> {}, packages |-> {},
     next |-> [repository |-> 1, distribution |-> 1, component |-> 1,
               architecture |-> 1],
     sessions |-> 0,
     for_update |-> TRUE,
     tx |-> [p \in Procs |-> NoTx]]

Ids(rows) == {r.id : r \in rows}

DistributionsOf(s, repo_id) == {d \in s.distributions : d.repository_id = repo_id}

DistributionNamesOf(s, repo_id) == {d.name : d \in DistributionsOf(s, repo_id)}

\* a session between begin and commit / rollback
Open(t) == t.pc \in {"locked", "deleted", "stream"}

\* line 436 (with_for_update=True): another session holds the repository
\* row.  s.for_update tells whether the database takes row locks: the
\* PostgreSQL of REFLEX_DB_URI does; the SQLite file that constants.py:24-29
\* falls back to has no FOR UPDATE and the statement is sent without it
Locked(s, repo_id) ==
    /\ s.for_update
    /\ \E p \in Procs :
        /\ s.tx[p].op = "replace"
        /\ s.tx[p].pc \in {"locked", "deleted"}
        /\ s.tx[p].repo_id = repo_id

\* models/repository.py:153-154, 38; models/packages.py:20, 39, 58-67
UniqueKeysHold(s) ==
    /\ Cardinality({r.url : r \in s.repositories}) = Cardinality(s.repositories)
    /\ Cardinality({r.name : r \in s.repositories}) = Cardinality(s.repositories)
    /\ Cardinality({<<d.repository_id, d.name>> : d \in s.distributions})
           = Cardinality(s.distributions)
    /\ Cardinality({<<c.repository_id, c.name>> : c \in s.components})
           = Cardinality(s.components)
    /\ Cardinality({<<a.repository_id, a.name>> : a \in s.architectures})
           = Cardinality(s.architectures)

\* the rows that reference a row that is not there
Dangling(s) ==
    [distributions |->
        {d \in s.distributions : d.repository_id \notin Ids(s.repositories)},
     components |->
        {c \in s.components : c.repository_id \notin Ids(s.repositories)},
     architectures |->
        {a \in s.architectures : a.repository_id \notin Ids(s.repositories)},
     packages |->
        {k \in s.packages :
            \/ k.repository_id \notin Ids(s.repositories)
            \/ k.distribution_id \notin Ids(s.distributions)
            \/ k.component_id \notin Ids(s.components)
            \/ k.architecture_id \notin Ids(s.architectures)}]

\* a foreign key without ON DELETE CASCADE that is not enforced either
CascadeNothing(s) == s

\* ondelete="CASCADE" of every foreign key: the rows that reference a
\* deleted row go with it (a package references rows that reference the
\* repository, so the children go first and the packages after them)
Cascade(s) ==
    LET kept == [s EXCEPT !.distributions = @ \ Dangling(s).distributions,
                          !.components = @ \ Dangling(s).components,
                          !.architectures = @ \ Dangling(s).architectures]
    IN  [kept EXCEPT !.packages = @ \ Dangling(kept).packages]

\* the foreign keys of the rows a transaction inserts, checked against the
\* rows that are there when it commits
InsertsReferenceRows(s, pending) ==
    LET merged == [s EXCEPT !.distributions = @ \cup pending.distributions,
                            !.components = @ \cup pending.components,
                            !.architectures = @ \cup pending.architectures,
                            !.packages = @ \cup pending.packages]
        dangling == Dangling(merged)
    IN  /\ dangling.distributions \cap pending.distributions = {}
        /\ dangling.components \cap pending.components = {}
        /\ dangling.architectures \cap pending.architectures = {}
        /\ dangling.packages \cap pending.packages = {}

\* the committed rows once transaction t's deletes are applied
Deleted(s, t) ==
    Cascade([s EXCEPT !.distributions = {d \in @ : d.id \notin t.deleted}])

\* the committed rows once transaction t's deletes and inserts are applied
Applied(s, t) ==
    LET after == Deleted(s, t)
    IN  [after EXCEPT !.distributions = @ \cup t.pending.distributions,
                      !.components = @ \cup t.pending.components,
                      !.architectures = @ \cup t.pending.architectures,
                      !.packages = @ \cup t.pending.packages]

\* COMMIT succeeds only if no constraint is violated.  A package row is
\* its unique key (models/packages.py:58-67): a second row with the key of
\* a committed row is the violation
CanCommit(s, t) ==
    /\ InsertsReferenceRows(Deleted(s, t), t.pending)
    /\ UniqueKeysHold(Applied(s, t))
    /\ t.pending.packages \cap Deleted(s, t).packages = {}

\* what is left of a transaction once its session is closed: which call it
\* was, how it ended, and what the call was given
Ended(t, how) ==
    IF how = "committed"
    THEN [NoTx EXCEPT !.op = t.op, !.pc = how, !.repo_id = t.repo_id,
                      !.names = t.names]
    ELSE [NoTx EXCEPT !.op = t.op, !.pc = how]

(***************************************************************************)
(* Repository rows: add, update, delete (AppState, lines 287-351)          *)
(***************************************************************************)
\* add_repository_to_db(form_data): the URL is required, the name defaults
\* to DefaultName(url); a row with this URL already there is reported and
\* nothing is written; any exception (the unique index on name) is caught
AddRepositoryToDb(name, url) ==
    /\ store.next.repository <= MaxIds
    /\ LET repo_name == IF name = <<>> THEN DefaultName(url) ELSE name
           row == [id |-> store.next.repository, name |-> repo_name, url |-> url]
           added == [store EXCEPT !.repositories = @ \cup {row},
                                  !.next.repository = @ + 1]
       IN  store' =
               IF url = <<>> THEN store
               ELSE IF \E r \in store.repositories : r.url = url THEN store
               ELSE IF ~UniqueKeysHold(added) THEN store
               ELSE added
    /\ UNCHANGED notStore

\* update_repository_in_db(form_data) for current_repo.id = id: the row is
\* read FOR UPDATE, every field of the form but "id" is assigned to it
\* (sqlmodel_update), and the commit fails on a unique index
UpdateRepositoryInDb(id, name, url) ==
    /\ ~Locked(store, id)
    /\ LET updated ==
               [store EXCEPT !.repositories =
                   {IF r.id = id THEN [r EXCEPT !.name = name, !.url = url] ELSE r :
                       r \in @}]
       IN  store' =
               IF id \notin Ids(store.repositories) THEN store
               ELSE IF ~UniqueKeysHold(updated) THEN store
               ELSE updated
    /\ UNCHANGED notStore

\* delete_repository_from_db(id): session.delete(repo) and commit; the
\* DELETE waits for a session that holds the row FOR UPDATE.  Either the
\* row goes with everything that references it, or the flush raises and
\* nothing is deleted
DeleteRepositoryFromDb(id, raised) ==
    /\ ~Locked(store, id)
    /\ id \in Ids(store.repositories)
    /\ store' =
           IF raised THEN store
           ELSE Cascade([store EXCEPT !.repositories = {r \in @ : r.id # id}])
    /\ UNCHANGED notStore

(***************************************************************************)
(* _replace_repository_distributions (lines 422-475), one step per await   *)
(***************************************************************************)
\* line 436: get_one(Repository, repo_id, with_for_update=True) waits for the
\* row lock; NoResultFound if the row is gone (lines 470-472)
ReplaceGetOne(p, repo_id, names) ==
    /\ ~Open(store.tx[p])
    /\ store.sessions < MaxSessions
    /\ ~Locked(store, repo_id)
    /\ LET t == [NoTx EXCEPT !.op = "replace", !.repo_id = repo_id,
                             !.names = names]
       IN  store' =
               [store EXCEPT !.sessions = @ + 1,
                             !.tx[p] =
                   IF repo_id \in Ids(store.repositories)
                   THEN [t EXCEPT !.pc = "locked"]
                   ELSE Ended(t, "failed")]
    /\ UNCHANGED notStore

\* lines 441-446: select the repository's distributions, delete each, flush
ReplaceDeleteExisting(p) ==
    /\ store.tx[p].op = "replace"
    /\ store.tx[p].pc = "locked"
    /\ store' =
           [store EXCEPT !.tx[p].pc = "deleted",
                         !.tx[p].deleted =
                             Ids(DistributionsOf(store, store.tx[p].repo_id))]
    /\ UNCHANGED notStore

\* lines 449-468: one new Distribution per fetched Release, add_all, commit;
\* an exception of the commit is caught at line 473 and the session rolls back
ReplaceCommit(p) ==
    /\ store.tx[p].op = "replace"
    /\ store.tx[p].pc = "deleted"
    /\ LET t0 == store.tx[p]
           id_of == CHOOSE f \in [t0.names -> store.next.distribution ..
                                      store.next.distribution + Cardinality(t0.names) - 1] :
                       \A x, y \in t0.names : x # y => f[x] # f[y]
           rows == {[id |-> id_of[n], repository_id |-> t0.repo_id, name |-> n] :
                       n \in t0.names}
           t == [t0 EXCEPT !.pending.distributions = rows]
           seq == [store EXCEPT !.next.distribution = @ + Cardinality(t0.names)]
       IN  store' =
               IF CanCommit(seq, t)
               THEN [Applied(seq, t) EXCEPT !.tx[p] = Ended(t, "committed")]
               ELSE [seq EXCEPT !.tx[p] = Ended(t, "failed")]
    /\ UNCHANGED notStore

\* a statement raises, or the task is cancelled at one of the awaits of lines
\* 436-468: the 'async with rx.asession()' block is left without a commit
ReplaceRollback(p) ==
    /\ store.tx[p].op = "replace"
    /\ store.tx[p].pc \in {"locked", "deleted"}
    /\ store' = [store EXCEPT !.tx[p] = Ended(@, "failed")]
    /\ UNCHANGED notStore

(***************************************************************************)
(* _replace_packages_for_target (lines 140-185) as one of several sessions *)
(***************************************************************************)
\* the id of the row named name in the repository, or the next id of the
\* sequence when _get_or_create_* has to build the row (lines 88-105)
GetOrCreateId(rows, repo_id, name, next_id) ==
    IF \E r \in rows : r.repository_id = repo_id /\ r.name = name
    THEN (CHOOSE r \in rows : r.repository_id = repo_id /\ r.name = name).id
    ELSE next_id

\* lines 148-159: get_one(Distribution, distribution_id) for an id the
\* caller once read, get or create the component and the architecture,
\* flush, load the scope's packages
TargetBegin(p, distribution_id) ==
    /\ ~Open(store.tx[p])
    /\ store.sessions < MaxSessions
    /\ distribution_id < store.next.distribution
    /\ LET t0 == [NoTx EXCEPT !.op = "packages", !.distribution_id = distribution_id]
       IN  IF distribution_id \notin Ids(store.distributions)
           THEN store' = [store EXCEPT !.sessions = @ + 1,
                                       !.tx[p] = Ended(t0, "failed")]
           ELSE LET dist == CHOOSE d \in store.distributions : d.id = distribution_id
                    repo_id == dist.repository_id
                    cid == GetOrCreateId(store.components, repo_id, "main",
                                         store.next.component)
                    aid == GetOrCreateId(store.architectures, repo_id, "amd64",
                                         store.next.architecture)
                    new_c == IF cid \in Ids(store.components) THEN {}
                             ELSE {[id |-> cid, repository_id |-> repo_id,
                                    name |-> "main"]}
                    new_a == IF aid \in Ids(store.architectures) THEN {}
                             ELSE {[id |-> aid, repository_id |-> repo_id,
                                    name |-> "amd64"]}
                    known == {<<k.name, k.version>> :
                                 k \in {x \in store.packages :
                                           /\ x.distribution_id = distribution_id
                                           /\ x.component_id = cid
                                           /\ x.architecture_id = aid}}
                IN  store' =
                        [store EXCEPT
                            !.sessions = @ + 1,
                            !.next.component = @ + Cardinality(new_c),
                            !.next.architecture = @ + Cardinality(new_a),
                            !.tx[p] = [t0 EXCEPT !.pc = "stream",
                                                 !.repo_id = repo_id,
                                                 !.component_id = cid,
                                                 !.architecture_id = aid,
                                                 !.known = known,
                                                 !.pending.components = new_c,
                                                 !.pending.architectures = new_a]]
    /\ UNCHANGED notStore

\* lines 162-177: one entry of the stream, which has each (name, version)
\* once: a known (name, version) is stamped, any other becomes a new row of
\* the session
TargetAdd(p, key) ==
    /\ store.tx[p].op = "packages"
    /\ store.tx[p].pc = "stream"
    /\ LET t == store.tx[p]
           row == [repository_id |-> t.repo_id,
                   distribution_id |-> t.distribution_id,
                   component_id |-> t.component_id,
                   architecture_id |-> t.architecture_id,
                   name |-> key[1], version |-> key[2]]
       IN  /\ row \notin t.pending.packages
           /\ store' =
                  IF key \in t.known
                  THEN store
                  ELSE [store EXCEPT !.tx[p].pending.packages = @ \cup {row}]
    /\ UNCHANGED notStore

\* lines 180-184: flush, stamp the distribution row, commit.  The UPDATE of
\* a distribution row that is gone, a foreign key or a unique constraint
\* makes the commit raise and the session roll back
TargetCommit(p) ==
    /\ store.tx[p].op = "packages"
    /\ store.tx[p].pc = "stream"
    /\ LET t == store.tx[p]
       IN  store' =
               IF /\ t.distribution_id \in Ids(store.distributions)
                  /\ CanCommit(store, t)
               THEN [Applied(store, t) EXCEPT !.tx[p] = Ended(t, "committed")]
               ELSE [store EXCEPT !.tx[p] = Ended(t, "failed")]
    /\ UNCHANGED notStore

\* a statement raises or the task is cancelled before the commit of line 184
TargetRollback(p) ==
    /\ store.tx[p].op = "packages"
    /\ store.tx[p].pc = "stream"
    /\ store' = [store EXCEPT !.tx[p] = Ended(@, "failed")]
    /\ UNCHANGED notStore

StoreIdle == store = NoRows

PkgIdle ==
    /\ db = EmptyStorage
    /\ txn = EmptyStorage
    /\ sess = NoSession
    /\ pc = "idle"
    /\ clock = 0
    /\ outcome = "none"

RelIdle == rel = NoFetch

SelIdle == selection = NoSelection

GocIdle == goc = NoGot

UiIdle == ui = NoHandler

OthersIdle == RelIdle /\ SelIdle /\ GocIdle /\ UiIdle /\ StoreIdle

InitPkg == PkgIdle /\ DlIdle /\ DiscIdle /\ OthersIdle

NextPkg ==
    \/ \E c \in ComponentNames, a \in ArchitectureNames : ReplacePackagesBegin(c, a)
    \/ \E e \in Entries, f \in BOOLEAN : \E x \in (IF f THEN BOOLEAN ELSE {FALSE}) :
          ReplacePackagesEntry(e, f, x)
    \/ \E x \in BOOLEAN : ReplacePackagesFinish(x)
    \/ ReplacePackagesCancel

SpecPkg == InitPkg /\ [][NextPkg]_vars

InitDl == PkgIdle /\ DlIdle /\ DiscIdle /\ OthersIdle

NextDl ==
    \/ \E m \in SkipModes, hf \in BOOLEAN, gf \in BOOLEAN, now \in Times :
          DownloadFile("Release", m, hf, gf, now)
    \/ \E f \in RemoteFields : \E v \in RemoteFieldValues(f) :
          RemoteChange("Release", f, v)

SpecDl == InitDl /\ [][NextDl]_vars

\* the mirror publishes or withdraws a Packages variant, with or without a
\* Last-Modified header
InitIdx == PkgIdle /\ DlIdle /\ DiscIdle /\ OthersIdle

NextIdx ==
    \/ \E m \in SkipModes, f \in Faults, now \in Times :
          DownloadPackagesIndex(m, f, now)
    \/ \E u \in IndexUrls, st \in Statuses : RemoteChange(u, "status", st)
    \/ \E u \in IndexUrls, lm \in {Absent, Value(0)} :
          RemoteChange(u, "last_modified", lm)

SpecIdx == InitIdx /\ [][NextIdx]_vars

Listings == UNION {[1 .. n -> ListingLines] : n \in 0 .. MaxLines}

InitDisc ==
    /\ PkgIdle
    /\ DlIdle
    /\ OthersIdle
    /\ listing \in [status : Statuses, lines : Listings]
    /\ discovered = NotDiscovered
    /\ managed = NotDiscovered

NextDisc ==
    \/ \E get_fails \in BOOLEAN : DiscoverDistributions(get_fails)
    \/ \E get_fails \in BOOLEAN : ManagerDiscoverDistributions(get_fails)

SpecDisc == InitDisc /\ [][NextDisc]_vars

InitRel ==
    /\ PkgIdle
    /\ DlIdle
    /\ OthersIdle
    /\ listing \in ReleaseListings
    /\ discovered = NotDiscovered
    /\ managed = NotDiscovered

NextRel ==
    \/ \E given \in BOOLEAN, names \in DistributionLists, gf \in BOOLEAN :
          FetchDistributionsBegin(given, names, gf)
    \/ \E file \in ReleaseFiles, rem \in ReleaseRemotes, hf \in BOOLEAN,
          gf \in BOOLEAN, content \in ReleaseContents, escapes \in BOOLEAN :
          FetchDistributionsNext(file, rem, hf, gf, content, escapes)

SpecRel == InitRel /\ [][NextRel]_vars

InitSel ==
    /\ PkgIdle
    /\ DlIdle
    /\ DiscIdle
    /\ RelIdle
    /\ GocIdle
    /\ UiIdle
    /\ StoreIdle
    /\ \E dc \in DeclaredComponents, da \in DeclaredArchitectures,
          cf \in ComponentFilters, af \in ArchitectureFilters :
          selection = [NoSelection EXCEPT !.declared_components = dc,
                                          !.declared_architectures = da,
                                          !.component_filter = cf,
                                          !.architecture_filter = af]

NextSel == LoadRelease \/ PackageTargets

SpecSel == InitSel /\ [][NextSel]_vars

InitGoc ==
    /\ db \in {EmptyStorage, [EmptyStorage EXCEPT !.name_unique = TRUE]}
    /\ txn = db
    /\ sess = NoSession
    /\ pc = "idle"
    /\ clock = 0
    /\ outcome = "none"
    /\ DlIdle
    /\ DiscIdle
    /\ OthersIdle

NextGoc ==
    \/ \E d \in Distributions, c \in ComponentNames, x \in BOOLEAN :
          GetOrCreateComponent(d, c, x)
    \/ \E d \in Distributions, a \in ArchitectureNames, x \in BOOLEAN :
          GetOrCreateArchitecture(d, a, x)
    \/ SessionCommit
    \/ SessionRollback

SpecGoc == InitGoc /\ [][NextGoc]_vars

InitUi == PkgIdle /\ DlIdle /\ DiscIdle /\ OthersIdle

NextUi ==
    \/ \E found \in BOOLEAN : FetchRepositoryDistributions(found)
    \/ \E result \in {"raised", "empty", "found"}, n \in 1 .. MaxDists :
          Discover(result, n)
    \/ \E yielded \in BOOLEAN : FetchOneRelease(yielded)
    \/ \E saved \in BOOLEAN : ReplaceRepositoryDistributions(saved)
    \/ ReportDistributions
    \/ FinallySleep
    \/ FinallyReset
    \/ \E usable \in BOOLEAN, cn \in DeclaredComponents, an \in DeclaredArchitectures :
          FetchDistributionPackages(usable, cn, an)
    \/ EnterTry
    \/ \E index_found \in BOOLEAN : NextTarget(index_found)
    \/ \E written \in BOOLEAN : WriteTarget(written)
    \/ FetchPackagesError
    \/ FinallyResetPackages
    \/ Cancel

SpecUi == InitUi /\ [][NextUi]_vars

NoStoreElse ==
    PkgIdle /\ DlIdle /\ DiscIdle /\ RelIdle /\ SelIdle /\ GocIdle /\ UiIdle

InitRepo == NoStoreElse /\ StoreIdle

NextRepo ==
    \/ \E name \in RepositoryNames, url \in RepositoryUrls \cup {<<>>} :
          AddRepositoryToDb(name, url)
    \/ \E id \in 1 .. MaxIds, name \in RepositoryNames,
          url \in RepositoryUrls \cup {<<>>} :
          UpdateRepositoryInDb(id, name, url)
    \/ \E id \in 1 .. MaxIds, raised \in BOOLEAN : DeleteRepositoryFromDb(id, raised)

SpecRepo == InitRepo /\ [][NextRepo]_vars

\* two repositories, added one after the other and synced once each: both
\* have a distribution "a", and the first one's main/amd64 packages were
\* fetched
SyncedRows ==
    [NoRows EXCEPT
        !.repositories =
            {[id |-> 1, name |-> <<"deb", "_", "debian">>,
              url |-> <<"http://", "deb", "/", "debian">>],
             [id |-> 2, name |-> <<"apt">>, url |-> <<"http://", "apt">>]},
        !.distributions =
            {[id |-> 1, repository_id |-> 1, name |-> "a"],
             [id |-> 2, repository_id |-> 2, name |-> "a"]},
        !.components = {[id |-> 1, repository_id |-> 1, name |-> "main"]},
        !.architectures = {[id |-> 1, repository_id |-> 1, name |-> "amd64"]},
        !.packages =
            {[repository_id |-> 1, distribution_id |-> 1, component_id |-> 1,
              architecture_id |-> 1, name |-> "foo", version |-> "1"]},
        !.next.repository = 3,
        !.next.distribution = 3,
        !.next.component = 2,
        !.next.architecture = 2]

\* the distribution ids the sequence can have handed out
DistributionIds ==
    1 .. Cardinality(SyncedRows.distributions)
             + MaxSessions * Cardinality(DistributionNames)

InitStore ==
    /\ NoStoreElse
    /\ \E for_update \in BOOLEAN :
          store = [SyncedRows EXCEPT !.for_update = for_update]

NextStore ==
    \/ \E p \in Procs, names \in SUBSET DistributionNames :
          ReplaceGetOne(p, RepoId, names)
    \/ \E p \in Procs : ReplaceDeleteExisting(p)
    \/ \E p \in Procs : ReplaceCommit(p)
    \/ \E p \in Procs : ReplaceRollback(p)
    \/ \E p \in Procs, distribution_id \in DistributionIds :
          TargetBegin(p, distribution_id)
    \/ \E p \in Procs, key \in PackageKeys : TargetAdd(p, key)
    \/ \E p \in Procs : TargetCommit(p)
    \/ \E p \in Procs : TargetRollback(p)
    \/ \E id \in Ids(SyncedRows.repositories), raised \in BOOLEAN :
          DeleteRepositoryFromDb(id, raised)

SpecStore == InitStore /\ [][NextStore]_vars

(***************************************************************************)
(* Properties of package reconciliation                                    *)
(***************************************************************************)
\* the rows of the pass's scope whose (name, version) the pass has streamed
StreamedRows ==
    {r \in ScopeRows(db.packages, sess.component, sess.architecture) :
        <<r.name, r.version>> \in sess.seen}

\* C1: a streamed entry whose (Package, Version) already has a row in the
\* scope when the pass starts creates no second row for that key, and the
\* pass changes nothing of the existing row but last_fetched_at.
C1_ExistingRowOnlyTimestamp ==
    [][\A r \in StreamedRows :
          /\ \E r2 \in db'.packages : r2.id = r.id
          /\ \A r2 \in db'.packages :
                PackageKey(r2) = PackageKey(r)
                    => r2 = [r EXCEPT !.last_fetched_at = r2.last_fetched_at]]_vars

\* a committed pass refreshed a row that was stored before the pass began
C1_Witness ==
    /\ pc = "idle"
    /\ outcome = "ok"
    /\ \E r \in db.packages, p \in sess.packages :
          /\ p.id = r.id
          /\ <<r.name, r.version>> \in sess.seen
          /\ p.last_fetched_at < r.last_fetched_at
          /\ r.last_fetched_at = clock

\* C2: a pass deletes no package row, and a row whose (name, version) the
\* Packages file does not list (or that is outside the scope) is left
\* exactly as it was.
C2_NoRowDeleted ==
    [][\A r \in db.packages :
          /\ \E r2 \in db'.packages : r2.id = r.id
          /\ r \notin StreamedRows => r \in db'.packages]_vars

\* a committed pass over a scope that holds a row the file did not list
C2_Witness ==
    /\ pc = "idle"
    /\ outcome = "ok"
    /\ sess.seen # {}
    /\ \E r \in ScopeRows(db.packages, sess.component, sess.architecture) :
          /\ <<r.name, r.version>> \notin sess.seen
          /\ r.last_fetched_at < clock

\* C3: storage never holds two package rows with the same
\* (distribution, component, architecture, name, version).
C3_UniquePackageKey ==
    \A r1 \in db.packages, r2 \in db.packages :
        PackageKey(r1) = PackageKey(r2) => r1 = r2

\* a pass streamed one not-yet-stored key twice and was refused by the
\* unique constraint, with rows already in storage
C3_Witness ==
    /\ pc = "idle"
    /\ outcome = "integrity"
    /\ sess.idx >= 2
    /\ Lookup(sess.packages, "foo", "1.0") = {}
    /\ sess.seen = {<<"foo", "1.0">>}
    /\ db.packages # {}

(***************************************************************************)
(* Properties of download_file                                             *)
(***************************************************************************)
Issued(method) == \E i \in 1 .. Len(call.requests) : call.requests[i] = method

\* the last call ran in CHECK mode over an existing destination
CheckedExisting ==
    /\ call # NoCall
    /\ call.skip_mode = "check"
    /\ call.before.exists

\* ... and its HEAD came back 2xx
HeadSucceeded ==
    /\ CheckedExisting
    /\ ~call.head_fails
    /\ remote[call.url].status = 200

\* C4: CHECK mode, destination present, successful HEAD whose Last-Modified
\* is no later than the local mtime plus one second: the call returns True,
\* issues no GET and leaves the destination file as it was.
C4_NotNewerSkipsGet ==
    (/\ HeadSucceeded
     /\ remote[call.url].last_modified.kind = "value"
     /\ remote[call.url].last_modified.v <= call.before.mtime + 1)
        => /\ call.result = "True"
           /\ ~Issued("GET")
           /\ files[call.url] = call.before

\* a skip decided by Last-Modified alone, at the edge of the tolerance, with
\* a Content-Length that does not match the local size
C4_Witness ==
    /\ HeadSucceeded
    /\ remote[call.url].last_modified = Value(call.before.mtime + 1)
    /\ remote[call.url].content_length.kind = "value"
    /\ remote[call.url].content_length.v # call.before.size
    /\ call.requests = <<"HEAD">>
    /\ call.result = "True"

\* C5: CHECK mode, destination present, a HEAD response whose Last-Modified
\* is later than the local mtime by more than one second: a GET is issued.
C5_NewerIssuesGet ==
    (/\ CheckedExisting
     /\ ~call.head_fails
     /\ remote[call.url].last_modified.kind = "value"
     /\ remote[call.url].last_modified.v > call.before.mtime + 1)
        => Issued("GET")

\* the remote is newer and has the very size of the local file
C5_Witness ==
    /\ HeadSucceeded
    /\ remote[call.url].last_modified.kind = "value"
    /\ remote[call.url].last_modified.v > call.before.mtime + 1
    /\ remote[call.url].content_length = Value(call.before.size)
    /\ call.requests = <<"HEAD", "GET">>
    /\ call.result = "True"

\* the Last-Modified comparison did not cause a skip: header absent,
\* unparsable, or remote newer than local
LastModifiedNoSkip ==
    \/ remote[call.url].last_modified.kind # "value"
    \/ remote[call.url].last_modified.v > call.before.mtime + 1

SizesEqual ==
    /\ remote[call.url].content_length.kind = "value"
    /\ remote[call.url].content_length.v = call.before.size

\* C6 as claimed: whenever the Last-Modified comparison does not cause a skip
\* (absent, unparsable or remote newer), Content-Length is compared with the
\* local size: equal skips the GET, anything else downloads.
C6_Original_SizeFallbackAlways ==
    (HeadSucceeded /\ LastModifiedNoSkip)
        => IF SizesEqual THEN ~Issued("GET") /\ call.result = "True"
           ELSE Issued("GET")

\* C6 amended: the Content-Length fallback applies when Last-Modified is
\* absent or unparsable (equal skips the GET, anything else downloads); a
\* Last-Modified that parses newer than the local mtime plus one second
\* downloads without looking at Content-Length.
C6_SizeFallbackWithoutDate ==
    HeadSucceeded
        => /\ remote[call.url].last_modified.kind # "value"
                => IF SizesEqual
                   THEN ~Issued("GET") /\ call.result = "True"
                            /\ files[call.url] = call.before
                   ELSE Issued("GET")
           /\ (/\ remote[call.url].last_modified.kind = "value"
               /\ remote[call.url].last_modified.v > call.before.mtime + 1)
                => Issued("GET")

\* a skip decided by Content-Length because Last-Modified could not be parsed
C6_Witness ==
    /\ HeadSucceeded
    /\ remote[call.url].last_modified = Garbage
    /\ SizesEqual
    /\ call.requests = <<"HEAD">>
    /\ call.result = "True"

\* a request of the last call came back non-2xx or failed in transport
HeadFailed == Issued("HEAD") /\ (call.head_fails \/ remote[call.url].status # 200)
GetFailed == Issued("GET") /\ (call.get_fails \/ remote[call.url].status # 200)

\* C7 as claimed: never raises; a failure of any request makes it return
\* False; True only with the destination file in place.
C7_Original_AnyFailureIsFalse ==
    call # NoCall
        => /\ call.result \in {"True", "False"}
           /\ (HeadFailed \/ GetFailed) => call.result = "False"
           /\ call.result = "True" => files[call.url].exists

\* C7 amended: never raises; a non-2xx status, connection error or timeout
\* on the GET makes it return False (a failed HEAD check is swallowed and
\* the GET is still attempted); True only with the destination file in place.
C7_GetFailureIsFalse ==
    call # NoCall
        => /\ call.result \in {"True", "False"}
           /\ GetFailed => call.result = "False"
           /\ call.result = "True" => files[call.url].exists

\* the HEAD check failed in transport, the GET went out and failed too
C7_Witness ==
    /\ CheckedExisting
    /\ call.head_fails
    /\ call.get_fails
    /\ call.requests = <<"HEAD", "GET">>
    /\ call.result = "False"

\* C8: after a download whose GET response carried Last-Modified L the
\* file's mtime is L, and while the mirror still answers L a CHECK-mode
\* call whose HEAD succeeds issues no GET: conditional fetches against an
\* unchanged remote download at most once.
C8_DownloadedThenCurrent ==
    (call # NoCall /\ remote[call.url].last_modified.kind = "value")
        => /\ (Issued("GET") /\ call.result = "True")
                => files[call.url].mtime = remote[call.url].last_modified.v
           /\ (call.prev.result = "True" /\ call.prev.requests # <<>>)
                => /\ call.before.mtime + 1 >= remote[call.url].last_modified.v
                   /\ (call.skip_mode = "check" /\ ~call.head_fails)
                        => /\ ~Issued("GET")
                           /\ call.result = "True"
                           /\ files[call.url] = call.before

\* a download stamped the file with the mirror's Last-Modified, and the
\* CHECK-mode call after it issued only the HEAD
C8_Witness ==
    /\ HeadSucceeded
    /\ call.prev.result = "True"
    /\ call.prev.requests = <<"GET">>
    /\ remote[call.url].last_modified = Value(MaxTime)
    /\ call.before.mtime = MaxTime
    /\ remote[call.url].content_length = Absent
    /\ call.requests = <<"HEAD">>
    /\ call.result = "True"

(***************************************************************************)
(* Properties of download_packages_index                                   *)
(***************************************************************************)
\* C9: Packages.gz is fetched first and plain Packages only when the
\* Packages.gz fetch failed; the call returns the first variant whose fetch
\* succeeded (its file then is in the cache) and None exactly when both
\* fetches failed.
C9_GzFirstPlainOnFailure ==
    index # NoIndex
        => LET a == index.attempts
           IN  /\ Len(a) \in {1, 2}
               /\ a[1].url = "Packages.gz"
               /\ Len(a) = 2 <=> a[1].result = "False"
               /\ Len(a) = 2 => a[2].url = "Packages"
               /\ index.returned =
                    IF a[1].result = "True" THEN "Packages.gz"
                    ELSE IF a[2].result = "True" THEN "Packages"
                    ELSE None
               /\ index.returned = None
                    <=> \A i \in 1 .. Len(a) : a[i].result = "False"
               /\ index.returned # None => files[index.returned].exists

\* Packages.gz answered 404 to a GET, then plain Packages was downloaded
C9_Witness ==
    /\ index # NoIndex
    /\ Len(index.attempts) = 2
    /\ index.attempts[1] =
         [url |-> "Packages.gz", result |-> "False", requests |-> <<"GET">>]
    /\ remote["Packages.gz"].status = 404
    /\ index.attempts[2] =
         [url |-> "Packages", result |-> "True", requests |-> <<"GET">>]
    /\ index.returned = "Packages"

(***************************************************************************)
(* Properties of discover_distributions                                    *)
(***************************************************************************)
\* an anchor whose href ends in '/' and is neither '../' nor '/' nor a '?'
\* link, and names a directory
DirectoryAnchor(line) ==
    /\ line.tag = "a"
    /\ EndsWith(line.href, Slash)
    /\ line.href # Parent
    /\ line.href # Slash
    /\ ~StartsWith(line.href, <<"?">>)
    /\ Strip(line.href, {"/"}) # <<>>

AnchorsNaming(name) ==
    {k \in 1 .. Len(listing.lines) :
        DirectoryAnchor(listing.lines[k]) /\ Strip(listing.lines[k].href, {"/"}) = name}

FirstSeen(name) ==
    CHOOSE k \in AnchorsNaming(name) : \A j \in AnchorsNaming(name) : k <= j

\* the result is the names of the directory anchors, once each, first-seen
NamesOfAnchors(entries) ==
    /\ \A i \in 1 .. Len(entries) : AnchorsNaming(entries[i]) # {}
    /\ \A k \in 1 .. Len(listing.lines) :
          DirectoryAnchor(listing.lines[k])
              => Contains(entries, Strip(listing.lines[k].href, {"/"}))
    /\ \A i, j \in 1 .. Len(entries) : entries[i] = entries[j] => i = j
    /\ \A i, j \in 1 .. Len(entries) :
          i < j => FirstSeen(entries[i]) < FirstSeen(entries[j])

\* a plain-text line that ends in '/' and does not start with '..'
DirectoryText(line) ==
    /\ line.tag = ""
    /\ EndsWith(Strip(line.text, {" "}), Slash)
    /\ ~StartsWith(Strip(line.text, {" "}), <<".", ".">>)

\* the result is the names of the directory text lines, once each
NamesOfTextLines(entries) ==
    /\ \A i \in 1 .. Len(entries) :
          \E k \in 1 .. Len(listing.lines) :
             /\ DirectoryText(listing.lines[k])
             /\ entries[i] = Strip(Strip(listing.lines[k].text, {" "}), {"/"})
    /\ \A k \in 1 .. Len(listing.lines) :
          DirectoryText(listing.lines[k])
              => Contains(entries, Strip(Strip(listing.lines[k].text, {" "}), {"/"}))
    /\ \A i, j \in 1 .. Len(entries) : entries[i] = entries[j] => i = j

ExampleListing == <<Anchor(Jammy \o Slash), Anchor(Parent), Anchor(Query)>>

\* C10 as claimed: the result is always the names taken from the directory
\* anchors, once each in first-seen order; jammy/, ../, ?C=N gives [jammy].
C10_Original_AnchorNamesOnly ==
    discovered.state = "ok"
        => /\ NamesOfAnchors(discovered.entries)
           /\ listing.lines = ExampleListing => discovered.entries = <<Jammy>>

\* C10 amended: when the listing has a directory anchor the result is the
\* names taken from the directory anchors, once each in first-seen order
\* (jammy/, ../, ?C=N gives [jammy]); when it has none the result is the
\* names of the plain-text lines that end in '/' and do not start with '..',
\* once each.
C10_AnchorNamesElseTextLines ==
    discovered.state = "ok"
        => /\ (\E k \in 1 .. Len(listing.lines) : DirectoryAnchor(listing.lines[k]))
                => NamesOfAnchors(discovered.entries)
           /\ (\A k \in 1 .. Len(listing.lines) : ~DirectoryAnchor(listing.lines[k]))
                => NamesOfTextLines(discovered.entries)
           /\ listing.lines = ExampleListing => discovered.entries = <<Jammy>>

\* a listing that names jammy by two anchors, after focal
C10_Witness ==
    /\ discovered.state = "ok"
    /\ listing.lines =
         <<Anchor(Focal \o Slash), Anchor(Slash \o Jammy \o Slash), Anchor(Jammy \o Slash)>>
    /\ discovered.entries = <<Focal, Jammy>>

(***************************************************************************)
(* Properties of discovery on an empty listing                             *)
(***************************************************************************)
\* the listing has no directory anchor and no directory text line
NoCandidate ==
    \A k \in 1 .. Len(listing.lines) :
        ~DirectoryAnchor(listing.lines[k]) /\ ~DirectoryText(listing.lines[k])

\* what the claim asks of one discovery result: it ends normally or with the
\* exception of the listing GET, and on a 2xx listing without a candidate
\* the normal end is the empty sequence
EmptyIsNotAnError(result) ==
    /\ result.state \in {"none", "ok", "raised"}
    /\ is_success(listing.status) /\ NoCandidate /\ result.state = "ok"
          => result.entries = <<>>

\* C11: discovery of a dists/ listing that is fetched with a 2xx status but
\* has no candidate directory name yields the empty sequence and signals no
\* error; discovery fails only when the listing GET itself fails. Stated of
\* both implementations, fetcher.discover_distributions and
\* RepositoryManager._discover_distributions.
C11_EmptyListingIsEmptyNotError ==
    EmptyIsNotAnError(discovered) /\ EmptyIsNotAnError(managed)

\* the same of fetcher.discover_distributions alone
C11_FetcherEmptyListingIsEmpty == EmptyIsNotAnError(discovered)

\* both implementations have run on a 2xx listing without a candidate
C11_Witness ==
    /\ is_success(listing.status)
    /\ NoCandidate
    /\ listing.lines # <<>>
    /\ discovered.state = "ok"
    /\ discovered.entries = <<>>
    /\ managed.state # "none"

FetchedWell(r) ==
    ~r.escapes /\ r.exc = "none" /\ r.local_path # None /\ r.parsed = "fields"

YieldOf(r) == [dist |-> r.dist, local_path |-> r.local_path, parsed |-> r.parsed]

\* C13: fetch_distributions yields a record only for the distributions whose
\* Release has both a local path and parsed fields, in the order of the
\* input names, and a download failure, parse failure or exception for one
\* distribution never keeps the later ones from being fetched and yielded.
C13_YieldsGoodOnesInOrder ==
    LET good == SelectSeq(rel.log, FetchedWell)
    IN  /\ Len(rel.log) = rel.i
        /\ \A k \in 1 .. Len(rel.log) : rel.log[k].dist = rel.names[k]
        /\ rel.yielded = [k \in 1 .. Len(good) |-> YieldOf(good[k])]
        /\ rel.state = "done" => rel.i = Len(rel.names)

\* three names: the first fails to download, the second raises, the third
\* is yielded
C13_Witness ==
    /\ rel.state = "done"
    /\ rel.names = <<Focal, Jammy, Focal>>
    /\ rel.log[1].download = "False" /\ ~rel.log[1].escapes
    /\ rel.log[2].escapes
    /\ Len(rel.yielded) = 1
    /\ rel.yielded[1].dist = Focal
    /\ FetchedWell(rel.log[3])

(***************************************************************************)
(* Properties of target selection                                          *)
(***************************************************************************)
\* the declared components that are in the filter, in declared order
DeclaredInFilter ==
    SelectSeq(selection.declared_components,
              LAMBDA c : \E i \in 1 .. Len(selection.component_filter) :
                            selection.component_filter[i] = c)

\* the names of the filter that are not the empty string
FilterNames ==
    SelectSeq(selection.component_filter, LAMBDA c : c # "")

\* no filter: the declared list, or [main] when that is empty too
UnfilteredComponents ==
    selection.component_filter = <<>>
        => selection.target_components =
              IF selection.declared_components # <<>>
              THEN selection.declared_components ELSE <<"main">>

\* 'main universe', 'amd64 arm64', filter [main], no architecture filter
SelectionExample ==
    (/\ selection.declared_components = <<"main", "universe">>
     /\ selection.declared_architectures = <<"amd64", "arm64">>
     /\ selection.component_filter = <<"main">>
     /\ selection.architecture_filter = <<>>)
        => /\ selection.target_components = <<"main">>
           /\ selection.target_arches = <<"amd64", "arm64">>

\* C14 as claimed: with a non-empty filter the targets are the declared
\* components that are in the filter, and the filter list itself when there
\* are none; with no filter the declared list, or [main] when it is empty.
C14_Original_FallbackIsFilterItself ==
    selection.loaded =>
        /\ selection.component_filter # <<>> =>
              selection.target_components =
                 IF DeclaredInFilter # <<>> THEN DeclaredInFilter
                 ELSE selection.component_filter
        /\ UnfilteredComponents
        /\ SelectionExample

\* C14 amended: with a non-empty filter the targets are the declared
\* components that are in the filter; when there are none they are the
\* filter's names that are not the empty string, or [main] when the filter
\* has no such name; with no filter the declared list, or [main] when it is
\* empty. The example gives [main] and keeps both architectures.
C14_FallbackIsFilterNames ==
    selection.loaded =>
        /\ selection.component_filter # <<>> =>
              selection.target_components =
                 IF DeclaredInFilter # <<>> THEN DeclaredInFilter
                 ELSE IF FilterNames # <<>> THEN FilterNames
                 ELSE <<"main">>
        /\ UnfilteredComponents
        /\ SelectionExample

\* a filter naming nothing that is declared, with an empty name in it
C14_Witness ==
    /\ selection.loaded
    /\ selection.declared_components = <<"main", "universe">>
    /\ selection.component_filter = <<"", "contrib">>
    /\ selection.target_components = <<"contrib">>

\* no target names a pseudo-architecture
BinaryOnly(pairs) == \A k \in 1 .. Len(pairs) : pairs[k][2] \notin {"all", "source"}

\* C15: no Packages index is ever requested for architecture 'all' or
\* 'source': the (component, architecture) targets of every package fetch,
\* RepositoryManager._load_release's and AppState.fetch_distribution_packages',
\* exclude them whatever the Release declares and whatever filters are given.
C15_NoPseudoArchitectureTarget ==
    BinaryOnly(selection.requested) /\ BinaryOnly(selection.targets)

\* the same of RepositoryManager._load_release alone
C15_LoadReleaseExcludesPseudo == BinaryOnly(selection.requested)

\* a package sync of a distribution whose Release declares 'amd64 all'
C15_Witness ==
    /\ selection.synced
    /\ selection.declared_architectures = <<"amd64", "all">>
    /\ selection.declared_components = <<"main">>
    /\ selection.targets = <<(<<"main", "amd64">>), (<<"main", "all">>)>>

(***************************************************************************)
(* Properties of the stored size, and of a pass that does not commit       *)
(***************************************************************************)
\* the Size values that int() accepts
IntegerTexts == {"10"}

IntegerOrNull(size) == size \in IntegerTexts \cup {None}

\* C16: an entry that has Package and Version and a non-numeric (or missing)
\* Size yields a record whose size is null: the size of every record built,
\* flushed or committed is an integer or null.
C16_SizeIsIntegerOrNull ==
    /\ \A i \in 1 .. Len(sess.pending) : IntegerOrNull(sess.pending[i].size)
    /\ \A r \in txn.packages : IntegerOrNull(r.size)
    /\ \A r \in db.packages : IntegerOrNull(r.size)

\* a pass committed the row of 'Package: foo, Version: 1.0, Size: bogus'
C16_Witness ==
    /\ pc = "idle"
    /\ outcome = "ok"
    /\ \E r \in db.packages :
          r.name = "foo" /\ r.version = "1.0" /\ r.size = "bogus"

\* C20: when a pass is cancelled or fails after some batches were flushed,
\* the rows of the flushed batches are still in storage afterwards: nothing
\* already flushed is rolled back.
C20_FlushedRowsSurvive ==
    [][pc = "stream" /\ pc' = "idle" /\ outcome' # "ok"
          => \A r \in txn.packages : \E r2 \in db'.packages : r2.id = r.id]_vars

(***************************************************************************)
(* Properties of get-or-create                                             *)
(***************************************************************************)
\* how often the distribution is linked to the row
LinkCount(row, distribution) ==
    Cardinality({i \in 1 .. Len(row.distributions) : row.distributions[i] = distribution})

\* at most one row per (repository, name), and no distribution linked twice
OneRowPerName(rows) ==
    /\ \A r1 \in rows, r2 \in rows :
          r1.repository_id = r2.repository_id /\ r1.name = r2.name => r1 = r2
    /\ \A r \in rows, d \in Distributions : LinkCount(r, d) <= 1

\* C17: _get_or_create_component and _get_or_create_architecture are
\* idempotent: however often they are called for the same (repository,
\* name) there is at most one row for the pair; a call that returns gives
\* back that row, the one that was there before the call if there was one,
\* with the given distribution linked to it exactly once.
C17_GetOrCreateIdempotent ==
    /\ OneRowPerName(txn.components) /\ OneRowPerName(txn.architectures)
    /\ OneRowPerName(db.components) /\ OneRowPerName(db.architectures)
    /\ goc.state = "returned" =>
          /\ goc.before # 0 => goc.entity = goc.before
          /\ \E r \in txn[goc.kind] :
                /\ r.id = goc.entity
                /\ r.repository_id = RepositoryOf(goc.distribution)
                /\ r.name = goc.name
                /\ LinkCount(r, goc.distribution) = 1

\* a call for a component that two distributions of the repository already
\* link, made again for the second of them
C17_Witness ==
    /\ goc.state = "returned"
    /\ goc.kind = "components"
    /\ goc.distribution = "focal"
    /\ goc.before # 0
    /\ \E r \in txn.components :
          r.id = goc.entity /\ r.distributions = <<"jammy", "focal">>
    /\ \E r \in db.components : r.distributions = <<"jammy", "focal">>

(***************************************************************************)
(* Properties of the background handlers                                   *)
(***************************************************************************)
\* C18: every invocation of fetch_repository_distributions or
\* fetch_distribution_packages that sets its busy flag resets the flag to
\* False and the fetch id to -1 on every path (success, early return,
\* exception, cancellation at any await after the flag was set): once the
\* handler has ended, no flag is left set.
C18_BusyFlagsResetAtEnd ==
    ui.pc = "done" =>
        /\ ~ui.is_fetching
        /\ ui.fetch_repo_id = -1
        /\ ~ui.is_fetching_packages
        /\ ui.package_fetch_distribution_id = -1

\* a package sync cancelled at the sleep(0) of line 512 has ended with its
\* flag set
C18_Witness ==
    /\ ui.pc = "done"
    /\ ui.handler = "packages"
    /\ ui.cancelled
    /\ ui.is_fetching_packages
    /\ ui.package_fetch_distribution_id = FetchDistributionId
    /\ ~ui.is_fetching

Toasted(kind) ==
    \E i \in 1 .. Len(ui.toasts) : ui.toasts[i] \in kind

SuccessToasts == {"success: fetched distributions", "success: fetched packages"}

\* C19: a sync in which a write to storage failed never reports success: a
\* distribution sync whose save step failed does not emit 'Successfully
\* fetched N distributions', and a package sync with a failed write does not
\* end with the success outcome.
C19_FailedSaveNeverReportsSuccess ==
    ui.save = "failed" \/ ui.write_failed => ~Toasted(SuccessToasts)

\* a distribution sync whose save failed has ended with the success toast
\* as its only outcome
C19_Witness ==
    /\ ui.pc = "done"
    /\ ui.handler = "distributions"
    /\ ui.save = "failed"
    /\ ~ui.cancelled
    /\ ui.toasts = <<"success: fetched distributions">>

\* C21: a package sync that was cancelled emits neither a success nor an
\* error outcome from then on, and its progress stays at the last count it
\* reached: it is not replaced by the 100 of a finished sync.
C21_CancelledKeepsLastProgress ==
    [][ui'.cancelled /\ ui'.handler = "packages" =>
          /\ ui'.toasts = ui.toasts
          /\ ui'.package_fetch_progress = Progress(ui'.processed, ui'.total_targets)]_vars

\* C21, the part about outcomes: no step of a cancelled handler emits an
\* outcome
C21_CancelEmitsNothing ==
    [][ui'.cancelled => ui'.toasts = ui.toasts]_vars

\* a package sync cancelled before its first target was processed has ended
\* without any outcome and with the progress of a finished sync
C21_Witness ==
    /\ ui.pc = "done"
    /\ ui.handler = "packages"
    /\ ui.cancelled
    /\ ui.processed = 0
    /\ ui.toasts = <<>>
    /\ ~ui.is_fetching_packages
    /\ ui.package_fetch_progress = 100

ErrorToasts ==
    {"error: repository not found", "error: fetching distributions",
     "error: saving packages", "error: fetching packages"}

\* C25: a distribution sync goes from idle to discovery, to the Release
\* fetches, to the save, and back to idle, in that order: the fetches start
\* only from a returned discovery, the save starts only when every name has
\* been worked through, storage is touched only in the save step, and after
\* an error outcome only the finally clause runs.
C25_DistributionSyncInOrder ==
    [][/\ ui'.pc = "discover" => ui.pc \in {"idle", "done"}
       /\ (ui'.pc = "fetch" /\ ui.pc # "fetch") => ui.pc = "discover"
       /\ (ui'.pc = "save" /\ ui.pc # "save") =>
              ui.pc = "fetch" /\ ui.idx = ui.num_dists
       /\ (ui'.save # ui.save /\ ui'.save # None) => ui.pc = "save"
       /\ (ui'.handler = "distributions" /\ Len(ui'.toasts) > Len(ui.toasts)
             /\ ui'.toasts[Len(ui'.toasts)] \in ErrorToasts) =>
              ui'.pc \in {"finally", "done"}
       /\ ui.pc = "finally" => ui'.pc \in {"sleep", "done"}
       /\ ui.pc = "sleep" => ui'.pc = "done"]_vars

\* a sync of two distributions has saved and ended
C25_Witness ==
    /\ ui.handler = "distributions"
    /\ ui.pc = "done"
    /\ ui.num_dists = 2
    /\ ui.idx = 2
    /\ ui.fetched = 1
    /\ ui.save = "ok"
    /\ ~ui.is_fetching

PositionIn(seq, x) == CHOOSE i \in 1 .. Len(seq) : seq[i] = x

\* the place of a target in the order components outer, architectures inner
Rank(target) ==
    (PositionIn(ui.component_names, target[1]) - 1) * Len(ui.architecture_names)
        + PositionIn(ui.architecture_names, target[2])

Downloads == SelectSeq(ui.log, LAMBDA ev : ev.op \in {"index", "no index"})

\* C26: the targets of a package sync are processed one at a time,
\* components in the outer loop, architectures in the inner loop, both in the
\* stored order: the k-th download is for the k-th target of that order, and
\* a target is written right after its own download, before the next one.
C26_TargetsOneAtATimeInOrder ==
    /\ \A k \in 1 .. Len(Downloads) : Rank(Downloads[k].target) = k
    /\ \A k \in 1 .. Len(ui.log) :
          ui.log[k].op = "write" =>
              /\ k > 1
              /\ ui.log[k - 1].op = "index"
              /\ ui.log[k - 1].target = ui.log[k].target

\* two components and two architectures: all four targets downloaded and
\* written
C26_Witness ==
    /\ ui.pc = "done"
    /\ ui.component_names = <<"universe", "main">>
    /\ ui.architecture_names = <<"amd64", "arm64">>
    /\ Len(ui.log) = 8
    /\ ui.processed = 4

\* C27: when download_packages_index finds no index for a target, the sync
\* counts the target as processed, emits no outcome for it, writes nothing
\* for it and goes on with the next target.
C27_MissingIndexIsSkipped ==
    [][(Len(ui'.log) > Len(ui.log) /\ ui'.log[Len(ui'.log)].op = "no index") =>
          /\ ui'.toasts = ui.toasts
          /\ ui'.processed = ui.processed + 1
          /\ ui'.write_failed = ui.write_failed
          /\ ui'.pc = "target"
          /\ Len(ui'.log) = Len(ui.log) + 1]_vars

\* the first of two targets had no index, the second was written
C27_Witness ==
    /\ ui.pc = "done"
    /\ Len(ui.log) = 3
    /\ ui.log[1].op = "no index"
    /\ ui.log[3].op = "write"
    /\ ui.log[3].target # ui.log[1].target
    /\ ui.toasts = <<"success: fetched packages">>

\* C29: processed goes up by exactly one per target, whatever the target's
\* outcome, so it is the number of targets handled and never exceeds the
\* number of targets; package_fetch_progress stays within 0..100 and never
\* goes down while the sync runs.
C29_ProcessedOncePerTarget ==
    [][ui'.handler = "packages" =>
          /\ ui'.processed =
                 Len(SelectSeq(ui'.log, LAMBDA ev : ev.op \in {"index", "no index"}))
                     - (IF ui'.pc = "write" THEN 1 ELSE 0)
          /\ ui'.processed <= ui'.total_targets
          /\ ui'.package_fetch_progress \in 0 .. 100
          /\ ui.handler = "packages" /\ ui.pc \notin {"idle", "done"} =>
                 ui'.package_fetch_progress >= ui.package_fetch_progress]_vars

\* a sync of two targets, one without an index and one whose write failed,
\* has counted both
C29_Witness ==
    /\ ui.handler = "packages"
    /\ ui.pc = "done"
    /\ ui.total_targets = 2
    /\ ui.processed = 2
    /\ ui.write_failed
    /\ Len(ui.log) = 3
    /\ ~ui.cancelled

\* C28: whenever download_file returns False the destination file is as it
\* was before the call: same existence, same content, same mtime.
C28_FailedDownloadLeavesFile ==
    call.result = "False" => files[call.url] = call.before

\* a call that found no file returned False and left one behind
C28_Witness ==
    /\ call.result = "False"
    /\ ~call.before.exists
    /\ files[call.url].exists
    /\ call.requests = <<"GET">>
    /\ ~call.get_fails

(***************************************************************************)
(* Storage claims                                                          *)
(***************************************************************************)
\* the rows of one step's two states that are the same repository row
SameRow(r, r2) == r.id = r2.id

\* C24: the URL of a repository row never changes once the row exists,
\* whatever add_repository_to_db, update_repository_in_db and
\* delete_repository_from_db calls are made, and no two repository rows
\* share a URL.
C24_UrlImmutableAndUnique ==
    /\ [][\A r \in store.repositories : \A r2 \in store'.repositories :
              SameRow(r, r2) => r2.url = r.url]_vars
    /\ [](\A r, r2 \in store.repositories : r.url = r2.url => r = r2)

\* the part of C24 the unique index gives: no two rows share a URL
C24_NoSharedUrl ==
    \A r, r2 \in store.repositories : r.url = r2.url => r = r2

\* two rows exist, and one of them carries a name the add form did not
\* derive from its URL
C24_Witness ==
    /\ Cardinality(store.repositories) = 2
    /\ \E r \in store.repositories : r.name # <<>> /\ r.name # DefaultName(r.url)

\* session p's call of _replace_repository_distributions returns in this step
Returns(p) ==
    /\ store.tx[p].op = "replace"
    /\ Open(store.tx[p])
    /\ ~Open(store'.tx[p])

\* what C22 asks of the step in which session p's call returns
AsOneUnit(p) ==
    LET repo_id == store.tx[p].repo_id
    IN  /\ IF store'.tx[p].pc = "committed"
           THEN DistributionNamesOf(store', repo_id) = store.tx[p].names
           ELSE DistributionsOf(store', repo_id) = DistributionsOf(store, repo_id)
        /\ \A other \in Ids(store.repositories) \ {repo_id} :
               DistributionsOf(store', other) = DistributionsOf(store, other)

\* C22: when a call of _replace_repository_distributions returns, the
\* repository's committed distributions are exactly the fetched set if it
\* committed and exactly what they were if it failed, and no other
\* repository's distributions have changed.
C22_ReplacedAsOneUnit ==
    [][\A p \in Procs : Returns(p) => AsOneUnit(p)]_vars

\* C22 where the database takes the row lock of line 436
C22_ReplacedAsOneUnitUnderRowLocks ==
    [][\A p \in Procs : store.for_update /\ Returns(p) => AsOneUnit(p)]_vars

\* a call replaced {"a"} by {"b"} and the other repository still has its "a"
C22_Witness ==
    \E p \in Procs :
        /\ store.tx[p].op = "replace"
        /\ store.tx[p].pc = "committed"
        /\ store.tx[p].repo_id = 1
        /\ store.tx[p].names = {"b"}
        /\ DistributionNamesOf(store, 1) = {"b"}
        /\ DistributionNamesOf(store, 2) = {"a"}

\* both sessions committed a replace of the same repository, which exists
BothReplaced(p, q) ==
    /\ p # q
    /\ store.tx[p].op = "replace" /\ store.tx[p].pc = "committed"
    /\ store.tx[q].op = "replace" /\ store.tx[q].pc = "committed"
    /\ store.tx[p].repo_id = store.tx[q].repo_id
    /\ store.tx[p].repo_id \in Ids(store.repositories)

\* session p's package pass commits in this step
PassCommits(p) ==
    /\ store.tx[p].op = "packages"
    /\ store.tx[p].pc = "stream"
    /\ store'.tx[p].pc = "committed"

\* C23: once two replace-all-distributions steps of one repository have both
\* committed, in whatever interleaving, the repository's distributions are
\* exactly the set one of the two wrote; no two distribution rows share
\* (repository, name); and a package pass never commits a second row for a
\* (name, version) its scope already has.
C23_ConcurrentSyncsDoNotCorrupt ==
    /\ [](\A p, q \in Procs :
             BothReplaced(p, q) =>
                 DistributionNamesOf(store, store.tx[p].repo_id)
                     \in {store.tx[p].names, store.tx[q].names})
    /\ [](\A d, d2 \in store.distributions :
             d.repository_id = d2.repository_id /\ d.name = d2.name => d = d2)
    /\ [][\A p \in Procs :
             PassCommits(p) =>
                 store.tx[p].pending.packages \cap store.packages = {}]_vars

\* the parts of C23 the unique constraints give
C23_NoDuplicateRows ==
    /\ [](\A d, d2 \in store.distributions :
             d.repository_id = d2.repository_id /\ d.name = d2.name => d = d2)
    /\ [][\A p \in Procs :
             PassCommits(p) =>
                 store.tx[p].pending.packages \cap store.packages = {}]_vars

\* the first part of C23 where the database takes the row lock of line 436
C23_OneOfTheTwoUnderRowLocks ==
    store.for_update =>
        \A p, q \in Procs :
            BothReplaced(p, q) =>
                DistributionNamesOf(store, store.tx[p].repo_id)
                    \in {store.tx[p].names, store.tx[q].names}

\* two syncs of repository 1 committed different sets
C23_Witness ==
    \E p, q \in Procs :
        /\ BothReplaced(p, q)
        /\ store.tx[p].repo_id = 1
        /\ store.tx[p].names = {"a"}
        /\ store.tx[q].names = {"b"}

\* C30: whatever the interleaving of a distribution sync, a repository
\* delete and a package sync, every committed package row references a
\* distribution, a component and an architecture row that exist.
C30_NoDanglingPackageRow ==
    \A k \in store.packages :
        /\ k.distribution_id \in Ids(store.distributions)
        /\ k.component_id \in Ids(store.components)
        /\ k.architecture_id \in Ids(store.architectures)

\* a distribution sync of repository 1 committed and deleted the rows a
\* package sync had read, the package sync ended, and repository 2 was
\* deleted
C30_Witness ==
    \E p, q \in Procs :
        /\ store.tx[p].op = "replace"
        /\ store.tx[p].pc = "committed"
        /\ store.tx[p].repo_id = 1
        /\ store.tx[q].op = "packages"
        /\ store.tx[q].pc = "failed"
        /\ 1 \notin Ids(store.distributions)
        /\ 2 \notin Ids(store.repositories)
        /\ store.packages = {}

====
